---- MODULE Spec2Model ----
(***************************************************************************)
(* PrepHub: the skill-gap and readiness computations of script.js          *)
(* (src/unnamed/part_001).                                                 *)
(*                                                                         *)
(* JavaScript strings are modelled as sequences of one-character strings,  *)
(* so that toLowerCase, trim, split and includes are computed character by *)
(* character as the engine computes them.                                  *)
(***************************************************************************)
EXTENDS Integers, Sequences, FiniteSets, TLC

(***************************************************************************)
(* String primitives                                                       *)
(***************************************************************************)

UpperCaseLetters == <<"A","B","C","D","E","F","G","H","I","J","K","L","M","N","O","P","Q","R","S","T","U","V","W","X","Y","Z">>

LowerCaseLetters == <<"a","b","c","d","e","f","g","h","i","j","k","l","m","n","o","p","q","r","s","t","u","v","w","x","y","z">>

\* the lower-case letter of each upper-case letter
LowerOf ==
    [c \in {UpperCaseLetters[k] : k \in 1..26} |->
        LowerCaseLetters[CHOOSE k \in 1..26 : UpperCaseLetters[k] = c]]

\* String.prototype.toLowerCase on one character (ASCII range).
toLowerCaseChar(c) == IF c \in DOMAIN LowerOf THEN LowerOf[c] ELSE c

\* String.prototype.toLowerCase.
toLowerCase(s) == [i \in 1..Len(s) |-> toLowerCaseChar(s[i])]

\* Whether needle occurs in hay at offset pos (0-based).
matchAt(hay, needle, pos) ==
    \A k \in 1..Len(needle) : hay[pos + k] = needle[k]

\* String.prototype.includes: needle occurs at some offset of hay.
stringIncludes(hay, needle) ==
    \E pos \in 0..(Len(hay) - Len(needle)) : matchAt(hay, needle, pos)

\* String.prototype.trim strips these from both ends.
isWhitespace(c) == c \in {" ", "\t", "\n"}

RECURSIVE trimStart(_)
trimStart(s) ==
    IF s # <<>> /\ isWhitespace(Head(s)) THEN trimStart(Tail(s)) ELSE s

RECURSIVE trimEnd(_)
trimEnd(s) ==
    IF s # <<>> /\ isWhitespace(s[Len(s)]) THEN trimEnd(SubSeq(s, 1, Len(s) - 1)) ELSE s

\* String.prototype.trim.
trim(s) == trimEnd(trimStart(s))

\* the positions of the separators of s, with 0 and Len(s) + 1 as the ends
cutsOf(s, sep) == {0, Len(s) + 1} \cup {i \in 1..Len(s) : s[i] = sep}

\* the j-th cut of s, counted from 0
cutAt(s, sep, j) ==
    CHOOSE i \in cutsOf(s, sep) : Cardinality({c \in cutsOf(s, sep) : c < i}) = j

\* String.prototype.split on a one-character separator: the pieces between
\* separators, empty pieces included ("".split(",") is [""]).
split(s, sep) ==
    [ j \in 1..(Cardinality(cutsOf(s, sep)) - 1) |->
        SubSeq(s, cutAt(s, sep, j - 1) + 1, cutAt(s, sep, j) - 1) ]

\* Array.prototype.filter is SelectSeq: the elements that pass the test, in order.

\* arr.map(s => s.trim())
mapTrim(arr) == [i \in 1..Len(arr) |-> trim(arr[i])]

\* arr.map(s => s.toLowerCase())
mapToLowerCase(arr) == [i \in 1..Len(arr) |-> toLowerCase(arr[i])]

\* Array.prototype.includes on strings (strict equality, case-sensitive).
arrayIncludes(arr, x) == \E i \in 1..Len(arr) : arr[i] = x

\* formData.get('skills').split(',').map(s => s.trim()).filter(s => s)
parseSkillList(raw) ==
    LET nonEmpty(s) == s # <<>>
    IN  SelectSeq(mapTrim(split(raw, ",")), nonEmpty)

(***************************************************************************)
(* JavaScript numbers that may be NaN                                      *)
(***************************************************************************)

JsNumber(n) == [nan |-> FALSE, n |-> n]
JsNaN == [nan |-> TRUE, n |-> 0]

\* x rounded to the nearest integer, halves up, for the rational num / den.
roundHalfUp(num, den) == (2 * num + den) \div (2 * den)

\* Math.round((count / total) * 100) in IEEE-754 double arithmetic, for
\* 0 <= count <= total <= 120.  0 / 0 is NaN and Math.round(NaN) is NaN.
\* The quotient is rounded to a double before it is multiplied, so the
\* product can fall just below a half: evaluating every pair in this range
\* shows that this happens exactly for the ratio 23/40, where
\* (23 / 40) * 100 = 57.49999999999999 and Math.round gives 57; for every
\* other pair the result is the exact value rounded half up.
mathRoundRatioTimes100(count, total) ==
    IF total = 0 THEN JsNaN
    ELSE IF 40 * count = 23 * total THEN JsNumber(57)
    ELSE JsNumber(roundHalfUp(100 * count, total))

\* renderDashboard: totalSkillsNeeded > 0 ? Math.round((skillsAcquired / totalSkillsNeeded) * 100) : 0
overallProgressOf(skillsAcquired, totalSkillsNeeded) ==
    IF totalSkillsNeeded > 0
    THEN mathRoundRatioTimes100(skillsAcquired, totalSkillsNeeded)
    ELSE JsNumber(0)

\* renderSkillGapAnalysis: total > 0 ? Math.round((proficientSkills.length / total) * 100) : 0
skillReadinessOf(proficientCount, neededCount) ==
    LET total == proficientCount + neededCount
    IN  IF total > 0 THEN mathRoundRatioTimes100(proficientCount, total) ELSE JsNumber(0)

\* renderProgress: Math.round((acquiredSkills / totalSkills) * 100)
percentageOf(acquiredSkills, totalSkills) ==
    mathRoundRatioTimes100(acquiredSkills, totalSkills)

\* analyzeJD: Math.round((haveSkills.length / jdaExtractedSkills.length) * 100)
scoreOf(haveCount, extractedCount) ==
    mathRoundRatioTimes100(haveCount, extractedCount)

(***************************************************************************)
(* Skill vocabulary                                                        *)
(***************************************************************************)

KNOWN_SKILLS == <<
    \* Languages
    <<"J","a","v","a","S","c","r","i","p","t">>,
    <<"T","y","p","e","S","c","r","i","p","t">>,
    <<"P","y","t","h","o","n">>,
    <<"J","a","v","a">>,
    <<"C","+","+">>,
    <<"C","#">>,
    <<"C">>,
    <<"G","o">>,
    <<"R","u","s","t">>,
    <<"R","u","b","y">>,
    <<"P","H","P">>,
    <<"S","w","i","f","t">>,
    <<"K","o","t","l","i","n">>,
    <<"S","c","a","l","a">>,
    <<"R">>,
    <<"M","A","T","L","A","B">>,
    \* Frontend
    <<"R","e","a","c","t">>,
    <<"A","n","g","u","l","a","r">>,
    <<"V","u","e">>,
    <<"V","u","e",".","j","s">>,
    <<"N","e","x","t",".","j","s">>,
    <<"N","u","x","t",".","j","s">>,
    <<"H","T","M","L">>,
    <<"C","S","S">>,
    <<"S","a","s","s">>,
    <<"T","a","i","l","w","i","n","d">>,
    <<"B","o","o","t","s","t","r","a","p">>,
    <<"j","Q","u","e","r","y">>,
    <<"R","e","d","u","x">>,
    <<"G","r","a","p","h","Q","L">>,
    <<"W","e","b","G","L">>,
    <<"T","h","r","e","e",".","j","s">>,
    \* Backend
    <<"N","o","d","e",".","j","s">>,
    <<"E","x","p","r","e","s","s">>,
    <<"D","j","a","n","g","o">>,
    <<"F","l","a","s","k">>,
    <<"F","a","s","t","A","P","I">>,
    <<"S","p","r","i","n","g">>,
    <<"S","p","r","i","n","g"," ","B","o","o","t">>,
    <<"L","a","r","a","v","e","l">>,
    <<"R","a","i","l","s">>,
    <<"A","S","P",".","N","E","T">>,
    <<".","N","E","T">>,
    <<"S","y","m","f","o","n","y">>,
    \* Databases
    <<"M","y","S","Q","L">>,
    <<"P","o","s","t","g","r","e","S","Q","L">>,
    <<"M","o","n","g","o","D","B">>,
    <<"R","e","d","i","s">>,
    <<"S","Q","L","i","t","e">>,
    <<"O","r","a","c","l","e">>,
    <<"S","Q","L"," ","S","e","r","v","e","r">>,
    <<"F","i","r","e","b","a","s","e">>,
    <<"S","u","p","a","b","a","s","e">>,
    <<"D","y","n","a","m","o","D","B">>,
    <<"C","a","s","s","a","n","d","r","a">>,
    <<"E","l","a","s","t","i","c","s","e","a","r","c","h">>,
    \* Cloud & DevOps
    <<"A","W","S">>,
    <<"A","z","u","r","e">>,
    <<"G","C","P">>,
    <<"D","o","c","k","e","r">>,
    <<"K","u","b","e","r","n","e","t","e","s">>,
    <<"C","I","/","C","D">>,
    <<"J","e","n","k","i","n","s">>,
    <<"G","i","t","H","u","b"," ","A","c","t","i","o","n","s">>,
    <<"T","e","r","r","a","f","o","r","m">>,
    <<"A","n","s","i","b","l","e">>,
    <<"L","i","n","u","x">>,
    <<"N","g","i","n","x">>,
    <<"A","p","a","c","h","e">>,
    \* Mobile
    <<"R","e","a","c","t"," ","N","a","t","i","v","e">>,
    <<"F","l","u","t","t","e","r">>,
    <<"A","n","d","r","o","i","d">>,
    <<"i","O","S">>,
    <<"X","a","m","a","r","i","n">>,
    \* Data & AI
    <<"M","a","c","h","i","n","e"," ","L","e","a","r","n","i","n","g">>,
    <<"D","e","e","p"," ","L","e","a","r","n","i","n","g">>,
    <<"T","e","n","s","o","r","F","l","o","w">>,
    <<"P","y","T","o","r","c","h">>,
    <<"P","a","n","d","a","s">>,
    <<"N","u","m","P","y">>,
    <<"S","c","i","k","i","t","-","l","e","a","r","n">>,
    <<"O","p","e","n","C","V">>,
    <<"N","L","P">>,
    <<"L","L","M">>,
    <<"D","a","t","a"," ","S","c","i","e","n","c","e">>,
    <<"P","o","w","e","r"," ","B","I">>,
    <<"T","a","b","l","e","a","u">>,
    \* Tools & Others
    <<"G","i","t">>,
    <<"G","i","t","H","u","b">>,
    <<"G","i","t","L","a","b">>,
    <<"J","i","r","a">>,
    <<"F","i","g","m","a">>,
    <<"R","E","S","T">>,
    <<"R","E","S","T"," ","A","P","I">>,
    <<"M","i","c","r","o","s","e","r","v","i","c","e","s">>,
    <<"A","g","i","l","e">>,
    <<"S","c","r","u","m">>,
    <<"O","O","P">>,
    <<"D","S","A">>,
    <<"D","a","t","a"," ","S","t","r","u","c","t","u","r","e","s">>,
    \* Testing
    <<"J","e","s","t">>,
    <<"M","o","c","h","a">>,
    <<"S","e","l","e","n","i","u","m">>,
    <<"C","y","p","r","e","s","s">>,
    <<"J","U","n","i","t">>,
    <<"p","y","t","e","s","t">>
>>

\* A JavaScript value that is a string, null or undefined.
JsString(s) == [kind |-> "string", chars |-> s]
JsNull == [kind |-> "null", chars |-> <<>>]
JsUndefined == [kind |-> "undefined", chars |-> <<>>]

\* !text : null, undefined and the empty string are falsy.
isFalsyText(text) == text.kind # "string" \/ text.chars = <<>>

extractSkillsFromTextNoLower(text) ==
    IF isFalsyText(text) THEN <<>>
    ELSE LET lower == toLowerCase(text.chars)
             keep(skill) == stringIncludes(lower, skill)
         IN  SelectSeq(KNOWN_SKILLS, keep)

\* an extraction that drops a skill whose name lies inside a longer match
extractSkillsFromTextLongestOnly(text) ==
    IF isFalsyText(text) THEN <<>>
    ELSE LET lower == toLowerCase(text.chars)
             keep(skill) == stringIncludes(lower, toLowerCase(skill))
             found == SelectSeq(KNOWN_SKILLS, keep)
             longest(skill) ==
                 \A i \in 1..Len(found) :
                     found[i] = skill
                        \/ ~stringIncludes(toLowerCase(found[i]), toLowerCase(skill))
         IN  SelectSeq(found, longest)

\* an extraction without the !text guard: toLowerCase of null or undefined
\* throws a TypeError
extractSkillsFromTextUnguarded(text) ==
    IF text.kind # "string" THEN <<"TypeError">>
    ELSE LET lower == toLowerCase(text.chars)
             keep(skill) == stringIncludes(lower, toLowerCase(skill))
         IN  SelectSeq(KNOWN_SKILLS, keep)

\* an extraction that reports every match twice
extractSkillsFromTextTwice(text) ==
    IF isFalsyText(text) THEN <<>>
    ELSE LET lower == toLowerCase(text.chars)
             keep(skill) == stringIncludes(lower, toLowerCase(skill))
         IN  SelectSeq(KNOWN_SKILLS, keep) \o SelectSeq(KNOWN_SKILLS, keep)

extractSkillsFromText(text) ==
    IF isFalsyText(text) THEN <<>>
    ELSE LET lower == toLowerCase(text.chars)
             keep(skill) == stringIncludes(lower, toLowerCase(skill))
         IN  SelectSeq(KNOWN_SKILLS, keep)

(***************************************************************************)
(* State                                                                   *)
(***************************************************************************)

VARIABLES
    appState,   \* the global appState: companies, userSkills, currentView, currentCompany
    storage,    \* localStorage[STORAGE_KEY]: <<>> when absent, else <<saved item>>
    now,        \* the last reading of Date.now()
    out,        \* what the visible view derived from the current state
    jdaExtractedSkills, \* the global jdaExtractedSkills
    jdaDom,     \* the JD analyzer's elements: the text box and the result panel
    timers,     \* the pending setTimeout callbacks of the score bar, oldest first
    jobsState,  \* the global jobsState of the Jobs view
    jobsDom,    \* the Jobs view's elements: the search box, the grid, the pagination
    fetches,    \* the requests to /api/jobs whose response has not been handled
    arg,        \* argument of the pure function under evaluation
    ret         \* its return value, once evaluated

vars == <<appState, storage, now, out, jdaExtractedSkills, jdaDom, timers,
         jobsState, jobsDom, fetches, arg, ret>>

trackerVars == <<appState, storage, now, out, jdaExtractedSkills, jdaDom, timers,
                 jobsState, jobsDom, fetches>>
harnessVars == <<arg, ret>>

(***************************************************************************)
(* Bounds and inputs                                                       *)
(***************************************************************************)

\* companies in the tracker
MaxCompanies == 3
\* pending bar-width timers of the JD analyzer
MaxTimers == 2
\* companies in the tracker while the JD analyzer is explored
MaxJdaCompanies == 2

STORAGE_VERSION == <<"1",".","0">>

\* what the user types into the "Required Skills" field of the add-company form
CompanySkillInputs == {
    <<"P","y","t","h","o","n",","," ","S","Q","L">>,
    <<"G","o">>,
    <<"p","y","t","h","o","n">>
}

\* what the user types into the "Your Current Skills" field
UserSkillInputs == {
    <<"P","y","t","h","o","n">>,
    <<"p","y","t","h","o","n",","," ","g","o"," ">>
}

\* descriptions of postings returned by the job search
JobDescriptions == { <<"G","o"," ","d","e","v">> }

\* the views the user navigates to
ViewNames == {"dashboard", "companies", "skills", "progress"}

\* those of them that derive readiness from the skills
DerivedViewNames == {"dashboard", "skills", "progress"}

\* Date.now() never runs backwards
ClockReadings == {now, now + 1}

(***************************************************************************)
(* Persistence                                                             *)
(***************************************************************************)

\* saveToLocalStorage: localStorage.setItem(STORAGE_KEY, JSON.stringify({version, timestamp, data}))
savedItem(state) == <<[version |-> STORAGE_VERSION, data |-> state]>>

(***************************************************************************)
(* Derived computations                                                    *)
(***************************************************************************)

\* Set.prototype.add on a Set kept in insertion order
setAdd(set, x) == IF arrayIncludes(set, x) THEN set ELSE Append(set, x)

RECURSIVE setAddAll(_, _)
setAddAll(set, xs) ==
    IF xs = <<>> THEN set ELSE setAddAll(setAdd(set, Head(xs)), Tail(xs))

\* companies.forEach(company => company.requiredSkills.forEach(skill => set.add(skill)))
RECURSIVE collectRequiredSkills(_, _)
collectRequiredSkills(set, companies) ==
    IF companies = <<>> THEN set
    ELSE collectRequiredSkills(setAddAll(set, Head(companies).requiredSkills), Tail(companies))

allRequiredSkillsOf(companies) == collectRequiredSkills(<<>>, companies)

\* renderDashboard, the statistics it derives
dashboardStats(state) ==
    LET allRequiredSkills == allRequiredSkillsOf(state.companies)
        lacks(skill) == ~arrayIncludes(state.userSkills, skill)
        has(skill) == arrayIncludes(state.userSkills, skill)
        totalSkillsNeeded == Len(allRequiredSkills)
        skillsAcquired == Len(SelectSeq(allRequiredSkills, has))
    IN  [ kind |-> "dashboard",
          totalCompanies |-> Len(state.companies),
          allRequiredSkills |-> allRequiredSkills,
          skillsNeeded |-> Len(SelectSeq(allRequiredSkills, lacks)),
          skillsAcquired |-> skillsAcquired,
          overallProgress |-> overallProgressOf(skillsAcquired, totalSkillsNeeded) ]

\* renderSkillGapAnalysis, the lists and the readiness it derives
\* a demand count that compares the names exactly
demandCountExact(companies, skill) ==
    LET requires(c) == arrayIncludes(c.requiredSkills, skill)
    IN  Len(SelectSeq(companies, requires))

\* appState.companies.filter(c =>
\*   c.requiredSkills.map(s => s.toLowerCase()).includes(skill.toLowerCase())).length
demandCount(companies, skill) ==
    LET requires(c) ==
            arrayIncludes(mapToLowerCase(c.requiredSkills), toLowerCase(skill))
    IN  Len(SelectSeq(companies, requires))

skillGapAnalysis(state) ==
    IF Len(state.companies) = 0
    THEN [ kind |-> "skills", empty |-> TRUE ]
    ELSE LET allRequiredSkills == allRequiredSkillsOf(state.companies)
             userSkillsLower == mapToLowerCase(state.userSkills)
             has(skill) == arrayIncludes(userSkillsLower, toLowerCase(skill))
             lacks(skill) == ~arrayIncludes(userSkillsLower, toLowerCase(skill))
             proficientSkills == SelectSeq(allRequiredSkills, has)
             neededSkills == SelectSeq(allRequiredSkills, lacks)
             demand(skill) == demandCount(state.companies, skill)
         IN  [ kind |-> "skills", empty |-> FALSE,
               allRequiredSkills |-> allRequiredSkills,
               proficientSkills |-> proficientSkills,
               neededSkills |-> neededSkills,
               neededCounts |-> [i \in 1..Len(neededSkills) |-> demand(neededSkills[i])],
               proficientCounts |-> [i \in 1..Len(proficientSkills) |-> demand(proficientSkills[i])],
               readiness |-> skillReadinessOf(Len(proficientSkills), Len(neededSkills)) ]

\* progress items that look the required skill up among the lower-cased
\* userSkills
progressItemsOfLoweredUser(state) ==
    [ i \in 1..Len(state.companies) |->
        LET company == state.companies[i]
            has(skill) == arrayIncludes(mapToLowerCase(state.userSkills), skill)
            totalSkills == Len(company.requiredSkills)
            acquiredSkills == Len(SelectSeq(company.requiredSkills, has))
        IN  [ company |-> i,
              totalSkills |-> totalSkills,
              acquiredSkills |-> acquiredSkills,
              percentage |-> percentageOf(acquiredSkills, totalSkills) ] ]

\* renderProgress, one item per company; item.company is the position of the
\* company object in appState.companies
progressItemsOf(state) ==
    [ i \in 1..Len(state.companies) |->
        LET company == state.companies[i]
            has(skill) == arrayIncludes(state.userSkills, skill)
            totalSkills == Len(company.requiredSkills)
            acquiredSkills == Len(SelectSeq(company.requiredSkills, has))
        IN  [ company |-> i,
              totalSkills |-> totalSkills,
              acquiredSkills |-> acquiredSkills,
              percentage |-> percentageOf(acquiredSkills, totalSkills) ] ]

\* the comparator b.percentage - a.percentage of a descending sort
compareByPercentageDescending(a, b) ==
    IF a.percentage.nan \/ b.percentage.nan THEN 0
    ELSE IF b.percentage.n < a.percentage.n THEN -1
    ELSE IF b.percentage.n > a.percentage.n THEN 1
    ELSE 0

\* (a, b) => a.percentage - b.percentage, as Array.prototype.sort reads it:
\* a NaN result counts as +0
compareByPercentage(a, b) ==
    IF a.percentage.nan \/ b.percentage.nan THEN 0
    ELSE IF a.percentage.n < b.percentage.n THEN -1
    ELSE IF a.percentage.n > b.percentage.n THEN 1
    ELSE 0

\* ECMAScript: a comparator is consistent on a set of values when it orders
\* them like a total preorder
isConsistentComparator(items) ==
    LET S == {items[i] : i \in 1..Len(items)}
        cmp(a, b) == compareByPercentage(a, b)
    IN  /\ \A a, b \in S : (cmp(a, b) < 0) <=> (cmp(b, a) > 0)
        /\ \A a, b, c \in S :
              /\ (cmp(a, b) = 0 /\ cmp(b, c) = 0) => cmp(a, c) = 0
              /\ (cmp(a, b) < 0 /\ cmp(b, c) < 0) => cmp(a, c) < 0
              /\ (cmp(a, b) > 0 /\ cmp(b, c) > 0) => cmp(a, c) > 0

\* insert x after every element that does not compare greater than it
RECURSIVE insertStable(_, _)
insertStable(sorted, x) ==
    IF sorted = <<>> THEN <<x>>
    ELSE IF compareByPercentage(Head(sorted), x) > 0 THEN <<x>> \o sorted
    ELSE <<Head(sorted)>> \o insertStable(Tail(sorted), x)

RECURSIVE stableSort(_, _)
stableSort(sorted, rest) ==
    IF rest = <<>> THEN sorted
    ELSE stableSort(insertStable(sorted, Head(rest)), Tail(rest))

permutationsOf(items) ==
    { [i \in 1..Len(items) |-> items[p[i]]] : p \in Permutations(1..Len(items)) }

\* Array.prototype.sort: a stable sort under a consistent comparator; under
\* an inconsistent one the order is implementation-defined
sortOutcomes(items) ==
    IF isConsistentComparator(items) THEN {stableSort(<<>>, items)}
    ELSE permutationsOf(items)

\* renderProgress
progressRenderings(state) ==
    IF Len(state.companies) = 0
    THEN { [ kind |-> "progress", empty |-> TRUE ] }
    ELSE { [ kind |-> "progress", empty |-> FALSE,
             progressItems |-> sorted ] : sorted \in sortOutcomes(progressItemsOf(state)) }

\* viewCompanyDetail, the two skill lists it derives
companyDetail(state, i) ==
    LET company == state.companies[i]
        has(skill) == arrayIncludes(state.userSkills, skill)
        lacks(skill) == ~arrayIncludes(state.userSkills, skill)
    IN  [ kind |-> "detail", company |-> i,
          proficientSkills |-> SelectSeq(company.requiredSkills, has),
          neededSkills |-> SelectSeq(company.requiredSkills, lacks) ]

\* renderCompanies and the views that derive nothing from the skills
plainView(name) == [kind |-> name]

\* out is followed only while it shows what was derived from the current
\* companies and userSkills: an operation that changes either without
\* rendering again leaves a view that no property below speaks about
staleView == [kind |-> "stale"]

staleUnlessPlain(view) ==
    IF view.kind \in {"dashboard", "skills", "progress", "detail"} THEN staleView ELSE view

\* the rendering switchView(viewName) runs
renderingsOf(viewName, state) ==
    CASE viewName = "dashboard" -> {dashboardStats(state)}
      [] viewName = "skills" -> {skillGapAnalysis(state)}
      [] viewName = "progress" -> progressRenderings(state)
      [] OTHER -> {plainView(viewName)}

(***************************************************************************)
(* Operations, as functions of the state they read and write               *)
(***************************************************************************)

\* the state of the page: its variables together
world ==
    [ appState |-> appState, storage |-> storage, now |-> now, out |-> out,
      jdaExtractedSkills |-> jdaExtractedSkills, jdaDom |-> jdaDom, timers |-> timers,
      jobsState |-> jobsState, jobsDom |-> jobsDom, fetches |-> fetches ]

becomesInitially(w) ==
    /\ appState = w.appState
    /\ storage = w.storage
    /\ now = w.now
    /\ out = w.out
    /\ jdaExtractedSkills = w.jdaExtractedSkills
    /\ jdaDom = w.jdaDom
    /\ timers = w.timers
    /\ jobsState = w.jobsState
    /\ jobsDom = w.jobsDom
    /\ fetches = w.fetches

becomes(w) ==
    \E next \in {w} :
        /\ appState' = next.appState
        /\ storage' = next.storage
        /\ now' = next.now
        /\ out' = next.out
        /\ jdaExtractedSkills' = next.jdaExtractedSkills
        /\ jdaDom' = next.jdaDom
        /\ timers' = next.timers
        /\ jobsState' = next.jobsState
        /\ jobsDom' = next.jobsDom
        /\ fetches' = next.fetches

\* Array.prototype.find(c => c.id === companyId): position of the first match, 0 if none
RECURSIVE findIndexById(_, _, _)
findIndexById(companies, companyId, i) ==
    IF i > Len(companies) THEN 0
    ELSE IF companies[i].id = companyId THEN i
    ELSE findIndexById(companies, companyId, i + 1)

\* let jobsState = {...}
initialJobsState ==
    [ currentPage |-> 1, totalResults |-> 0, resultsPerPage |-> 12,
      lastKeyword |-> <<>>, lastLocation |-> <<>>, lastCountry |-> "in" ]

\* the Jobs view's elements before the first search
initialJobsDom ==
    [ keyword |-> <<>>, location |-> <<>>, country |-> "in",
      loadingHidden |-> TRUE, grid |-> <<>>, emptyHidden |-> TRUE,
      errorHidden |-> TRUE, errorText |-> "",
      paginationHidden |-> TRUE, pageInfo |-> <<>>,
      prevDisabled |-> FALSE, nextDisabled |-> FALSE ]

\* the JD analyzer's elements before the first analysis
initialJdaDom ==
    [ text |-> <<>>,
      resultsHidden |-> TRUE, noSkillsHidden |-> TRUE,
      allSkillsSectionHidden |-> TRUE, addTrackerHidden |-> TRUE,
      scoreCircle |-> "", scoreValue |-> <<>>,
      barWidth |-> <<>>, barBackground |-> "",
      scoreMsg |-> "", scoreTitle |-> "",
      haveSkills |-> <<>>, havePlaceholder |-> FALSE, haveCount |-> <<>>,
      needSkills |-> <<>>, needPlaceholder |-> FALSE, needCount |-> <<>>,
      allSkills |-> <<>> ]

\* score >= k, which is false for NaN
atLeast(score, k) == ~score.nan /\ score.n >= k

\* the tiers with exclusive lower bounds
tierOfAbove(score) ==
    IF atLeast(score, 71) THEN "high" ELSE IF atLeast(score, 41) THEN "mid" ELSE "low"

\* score >= 70 ? 'high' : score >= 40 ? 'mid' : 'low'
tierOf(score) ==
    IF atLeast(score, 70) THEN "high" ELSE IF atLeast(score, 40) THEN "mid" ELSE "low"

\* the user edits the JD text box
editJdaText(w, text) == [w EXCEPT !.jdaDom.text = text]

\* analyzeJD() without its branch for an empty extraction
analyzeJDWithoutEmptyCase(w) ==
    LET text == trim(w.jdaDom.text)
        extracted == extractSkillsFromText(JsString(text))
        haveSkills == <<>>
        needSkills == <<>>
        score == scoreOf(Len(haveSkills), Len(extracted))
    IN  IF Len(extracted) # 0 THEN w
        ELSE [ w EXCEPT
                 !.jdaExtractedSkills = extracted,
                 !.timers = Append(@, score),
                 !.jdaDom = [ @ EXCEPT
                     !.resultsHidden = FALSE,
                     !.noSkillsHidden = TRUE,
                     !.allSkillsSectionHidden = FALSE,
                     !.addTrackerHidden = FALSE,
                     !.scoreCircle = tierOf(score),
                     !.scoreValue = <<score>>,
                     !.barBackground = "danger",
                     !.scoreMsg = "low",
                     !.scoreTitle = "Skills Gap Found",
                     !.haveCount = <<0>>, !.haveSkills = <<>>, !.havePlaceholder = TRUE,
                     !.needCount = <<0>>, !.needSkills = <<>>, !.needPlaceholder = FALSE,
                     !.allSkills = extracted ] ]

\* analyzeJD(), for a text box that is not blank
analyzeJD(w) ==
    LET text == trim(w.jdaDom.text)
        extracted == extractSkillsFromText(JsString(text))
        shown == [w.jdaDom EXCEPT !.resultsHidden = FALSE]
    IN  IF Len(extracted) = 0
        THEN [ w EXCEPT
                 !.jdaExtractedSkills = extracted,
                 !.jdaDom = [ shown EXCEPT
                     !.noSkillsHidden = FALSE,
                     !.allSkillsSectionHidden = TRUE,
                     !.addTrackerHidden = TRUE,
                     !.scoreCircle = "low",
                     !.scoreValue = <<JsNumber(0)>>,
                     !.barWidth = <<JsNumber(0)>>,
                     !.barBackground = "danger",
                     !.scoreMsg = "none detected",
                     !.haveSkills = <<>>, !.havePlaceholder = FALSE,
                     !.needSkills = <<>>, !.needPlaceholder = FALSE,
                     !.haveCount = <<0>>,
                     !.needCount = <<0>> ] ]
        ELSE LET userSkillsLower == mapToLowerCase(w.appState.userSkills)
                 has(s) == arrayIncludes(userSkillsLower, toLowerCase(s))
                 lacks(s) == ~arrayIncludes(userSkillsLower, toLowerCase(s))
                 haveSkills == SelectSeq(extracted, has)
                 needSkills == SelectSeq(extracted, lacks)
                 score == scoreOf(Len(haveSkills), Len(extracted))
             IN  [ w EXCEPT
                     !.jdaExtractedSkills = extracted,
                     !.timers = Append(@, score),
                     !.jdaDom = [ shown EXCEPT
                         !.noSkillsHidden = TRUE,
                         !.allSkillsSectionHidden = FALSE,
                         !.addTrackerHidden = FALSE,
                         !.scoreCircle = tierOf(score),
                         !.scoreValue = <<score>>,
                         !.barBackground = IF atLeast(score, 70) THEN "success"
                                           ELSE IF atLeast(score, 40) THEN "warning"
                                           ELSE "danger",
                         !.scoreMsg = IF atLeast(score, 70) THEN "high"
                                      ELSE IF atLeast(score, 40) THEN "mid" ELSE "low",
                         !.scoreTitle = IF atLeast(score, 70) THEN "Strong Match"
                                        ELSE IF atLeast(score, 40) THEN "Growing Match"
                                        ELSE "Skills Gap Found",
                         !.haveCount = <<Len(haveSkills)>>,
                         !.haveSkills = haveSkills,
                         !.havePlaceholder = (Len(haveSkills) = 0),
                         !.needCount = <<Len(needSkills)>>,
                         !.needSkills = needSkills,
                         !.needPlaceholder = (Len(needSkills) = 0),
                         !.allSkills = extracted ] ]

\* setTimeout(() => { bar.style.width = score + '%'; }, 100): the oldest pending callback runs
barTimerFires(w) ==
    [w EXCEPT !.jdaDom.barWidth = <<Head(w.timers)>>, !.timers = Tail(@)]

\* addJDAToTracker(), for a non-empty jdaExtractedSkills, Date.now() reads t
addJDAToTracker(w, t) ==
    LET newCompany == [ id |-> t,
                        requiredSkills |-> w.jdaExtractedSkills,
                        description |-> JsString(trim(w.jdaDom.text)) ]
        pushed == [w.appState EXCEPT !.companies = Append(@, newCompany)]
    IN  [ w EXCEPT !.appState = [pushed EXCEPT !.currentView = "companies"],
                   !.storage = savedItem(pushed),
                   !.now = t,
                   !.out = plainView("companies") ]

\* a clearJDA() that keeps the extracted skills
clearJDAKeepingSkills(w) ==
    [ w EXCEPT !.jdaDom.text = <<>>,
               !.jdaDom.resultsHidden = TRUE ]

\* clearJDA()
clearJDA(w) ==
    [ w EXCEPT !.jdaDom.text = <<>>,
               !.jdaDom.resultsHidden = TRUE,
               !.jdaExtractedSkills = <<>> ]

\* let appState = {companies: [], currentView: 'dashboard', currentCompany: null, userSkills: []}
initialWorld ==
    [ appState |-> [ companies |-> <<>>, userSkills |-> <<>>,
                     currentView |-> "dashboard", currentCompany |-> <<>> ],
      storage |-> <<>>,
      now |-> 0,
      out |-> plainView("none"),
      jdaExtractedSkills |-> <<>>,
      jdaDom |-> initialJdaDom,
      timers |-> <<>>,
      jobsState |-> initialJobsState,
      jobsDom |-> initialJobsDom,
      fetches |-> <<>> ]

\* a switchView(viewName) whose progress view sorts appState.companies itself
switchViewSortingCompanies(w, viewName) ==
    LET state == [w.appState EXCEPT !.currentView = viewName]
        sorted(rendering) ==
            IF rendering.kind = "progress" /\ ~rendering.empty
            THEN [ state EXCEPT !.companies =
                     [ k \in 1..Len(rendering.progressItems) |->
                         state.companies[rendering.progressItems[k].company] ] ]
            ELSE state
    IN  { [w EXCEPT !.appState = sorted(rendering), !.out = rendering] :
            rendering \in renderingsOf(viewName, state) }

\* switchView(viewName): the outcomes of its rendering
switchView(w, viewName) ==
    LET state == [w.appState EXCEPT !.currentView = viewName]
    IN  { [w EXCEPT !.appState = state, !.out = rendering] :
            rendering \in renderingsOf(viewName, state) }

\* handleAddCompany(event): the form's skills field holds raw, Date.now() reads t
handleAddCompany(w, raw, t) ==
    LET newCompany == [ id |-> t,
                        requiredSkills |-> parseSkillList(raw),
                        description |-> JsUndefined ]
        pushed == [w.appState EXCEPT !.companies = Append(@, newCompany)]
    IN  [ w EXCEPT !.appState = [pushed EXCEPT !.currentView = "companies"],
                   !.storage = savedItem(pushed),
                   !.now = t,
                   !.out = plainView("companies") ]

\* addJobToTracker(company, role, location, description), Date.now() reads t
addJobToTracker(w, description, t) ==
    LET newCompany == [ id |-> t,
                        requiredSkills |-> <<>>,
                        description |-> JsString(description) ]
        state == [w.appState EXCEPT !.companies = Append(@, newCompany)]
    IN  [ w EXCEPT !.appState = state,
                   !.storage = savedItem(state),
                   !.now = t,
                   !.out = staleUnlessPlain(w.out) ]

\* handleUpdateSkills that appends the parsed input to the previous list
handleUpdateSkillsMerging(w, raw) ==
    LET state == [w.appState EXCEPT !.userSkills = w.appState.userSkills \o parseSkillList(raw)]
    IN  [ w EXCEPT !.appState = state,
                   !.storage = savedItem(state),
                   !.out = IF state.currentView = "skills" THEN skillGapAnalysis(state)
                           ELSE IF state.currentView = "dashboard" THEN dashboardStats(state)
                           ELSE staleUnlessPlain(w.out) ]

\* handleUpdateSkills(event): the form's skills field holds raw
handleUpdateSkills(w, raw) ==
    LET state == [w.appState EXCEPT !.userSkills = parseSkillList(raw)]
    IN  [ w EXCEPT !.appState = state,
                   !.storage = savedItem(state),
                   !.out = IF state.currentView = "skills" THEN skillGapAnalysis(state)
                           ELSE IF state.currentView = "dashboard" THEN dashboardStats(state)
                           ELSE staleUnlessPlain(w.out) ]

\* viewCompanyDetail(companyId), for a company that is found
viewCompanyDetail(w, companyId) ==
    LET i == findIndexById(w.appState.companies, companyId, 1)
    IN  [ w EXCEPT !.appState.currentCompany = <<w.appState.companies[i]>>,
                   !.out = companyDetail(w.appState, i) ]

\* deleteCompany(companyId), for a company that is found and a confirmed dialog
deleteCompany(w, companyId) ==
    LET keep(c) == c.id # companyId
        state == [w.appState EXCEPT !.companies = SelectSeq(@, keep)]
    IN  [ w EXCEPT !.appState = state,
                   !.storage = savedItem(state),
                   !.out = IF state.currentView = "companies" THEN plainView("companies")
                           ELSE IF state.currentView = "dashboard" THEN dashboardStats(state)
                           ELSE staleUnlessPlain(w.out) ]

\* a value read from a backup file where an array is expected
JsArray(items) == [isArray |-> TRUE, items |-> items]
NotAnArray == [isArray |-> FALSE, items |-> <<>>]

\* the data object of a parsed backup file; present is false when the file
\* has no data member
backupData(companies, userSkills, currentView) ==
    [ present |-> TRUE, companies |-> companies, userSkills |-> userSkills,
      currentView |-> currentView ]

\* validateAppState(state): an object whose companies and userSkills are
\* arrays and whose currentView is a string
validateAppState(data) ==
    /\ data.present
    /\ data.companies.isArray
    /\ data.userSkills.isArray
    /\ data.currentView.isString

\* appState = imported.data, for data that passed validateAppState
appStateOf(data) ==
    [ companies |-> data.companies.items,
      userSkills |-> data.userSkills.items,
      currentView |-> data.currentView.chars,
      currentCompany |-> <<>> ]

\* a company object that has a requiredSkills property
hasRequiredSkills(company) == "requiredSkills" \in DOMAIN company

\* the render function of a view throws a TypeError: renderDashboard,
\* renderSkillGapAnalysis and renderProgress read company.requiredSkills of
\* every company, and so does createCompanyCard for renderCompanies
renderThrows(viewName, state) ==
    /\ viewName \in {"dashboard", "companies", "skills", "progress"}
    /\ \E i \in 1..Len(state.companies) : ~hasRequiredSkills(state.companies[i])

\* what the page shows after a render function threw
typeErrorView == [kind |-> "TypeError"]

\* switchView(viewName) on a state whose companies may lack requiredSkills:
\* appState.currentView is assigned before the render function runs
switchViewOrThrow(w, viewName) ==
    IF renderThrows(viewName, w.appState)
    THEN { [w EXCEPT !.appState.currentView = viewName, !.out = typeErrorView] }
    ELSE switchView(w, viewName)

\* importData that assigns and saves before it asks for confirmation
importDataOutcomesAssigningFirst(w, file, readable, confirmed) ==
    IF ~readable \/ ~file.parses \/ ~validateAppState(file.data)
    THEN { [world |-> w, promise |-> "rejected"] }
    ELSE LET state == appStateOf(file.data)
             saved == [w EXCEPT !.appState = state, !.storage = savedItem(state)]
         IN  IF ~confirmed THEN { [world |-> saved, promise |-> "resolved false"] }
             ELSE { [world |-> next, promise |-> "resolved true"] :
                        next \in switchViewOrThrow(saved, state.currentView) }

\* importData(file): the world and the promise after reader.onerror
\* (readable is false) or reader.onload, for a file's text and the answer to
\* the confirm dialog; an exception of switchView is caught like one of
\* JSON.parse
importDataOutcomes(w, file, readable, confirmed) ==
    IF ~readable \/ ~file.parses \/ ~validateAppState(file.data)
    THEN { [world |-> w, promise |-> "rejected"] }
    ELSE IF ~confirmed THEN { [world |-> w, promise |-> "resolved false"] }
    ELSE LET state == appStateOf(file.data)
             saved == [w EXCEPT !.appState = state, !.storage = savedItem(state)]
             view == IF state.currentView = "" THEN "dashboard" ELSE state.currentView
         IN  { [ world |-> next,
                 promise |-> IF next.out = typeErrorView THEN "rejected" ELSE "resolved true" ] :
                   next \in switchViewOrThrow(saved, view) }

\* importData(file), reader.onload: the worlds it may leave
importData(w, file, confirmed) ==
    { outcome.world : outcome \in importDataOutcomes(w, file, TRUE, confirmed) }

\* initializeDefaultState()
initializeDefaultState(w) ==
    LET state == [ companies |-> <<>>, userSkills |-> <<>>,
                   currentView |-> "dashboard", currentCompany |-> <<>> ]
    IN  [w EXCEPT !.appState = state, !.storage = savedItem(state)]

\* clearAllData(), both dialogs confirmed
clearAllData(w) ==
    switchView(initializeDefaultState([w EXCEPT !.storage = <<>>]), "dashboard")

\* an item of localStorage that this program did not write: its text may not
\* parse, and its data is read like a backup file's
foreignItem(parses, version, data) ==
    << [foreign |-> TRUE, parses |-> parses, version |-> version, data |-> data] >>

isForeign(item) == "foreign" \in DOMAIN item

\* loadFromLocalStorage that takes the parsed data without validateAppState
loadFromLocalStorageTrusting(w) ==
    IF w.storage = <<>> THEN initializeDefaultState(w)
    ELSE LET item == w.storage[1]
         IN  IF ~isForeign(item) THEN [w EXCEPT !.appState = item.data]
             ELSE IF ~item.parses \/ ~item.data.present THEN initializeDefaultState(w)
             ELSE LET state == appStateOf(item.data)
                  IN  IF item.version # STORAGE_VERSION
                      THEN [w EXCEPT !.appState = state, !.storage = savedItem(state)]
                      ELSE [w EXCEPT !.appState = state]

\* loadFromLocalStorage(): an item that saveToLocalStorage wrote parses, has
\* STORAGE_VERSION and holds the appState of that time
loadFromLocalStorage(w) ==
    IF w.storage = <<>> THEN initializeDefaultState(w)
    ELSE LET item == w.storage[1]
         IN  IF ~isForeign(item) THEN [w EXCEPT !.appState = item.data]
             ELSE IF ~item.parses \/ ~validateAppState(item.data)
             THEN initializeDefaultState(w)
             ELSE LET state == appStateOf(item.data)
                  IN  IF item.version # STORAGE_VERSION
                      THEN [w EXCEPT !.appState = state, !.storage = savedItem(state)]
                      ELSE [w EXCEPT !.appState = state]

\* the DOMContentLoaded listener: loadFromLocalStorage(), then the initial
\* renderDashboard()
domContentLoaded(w) ==
    LET loaded == loadFromLocalStorage(w)
    IN  [ loaded EXCEPT !.out = IF renderThrows("dashboard", loaded.appState)
                                 THEN typeErrorView
                                 ELSE dashboardStats(loaded.appState) ]

\* Math.ceil(total / perPage) for non-negative integers
ceilDiv(total, perPage) == (total + perPage - 1) \div perPage

\* searchJobs(page) up to its await fetch(...): the request is on its way
searchJobs(w, page) ==
    LET typed == trim(w.jobsDom.keyword)
        keyword == IF typed = <<>>
                   THEN <<"s","o","f","t","w","a","r","e"," ","d","e","v","e","l","o","p","e","r"," ","i","n","t","e","r","n">>
                   ELSE typed
        location == trim(w.jobsDom.location)
        country == w.jobsDom.country
    IN  [ w EXCEPT
            !.jobsState = [ @ EXCEPT !.currentPage = page,
                                     !.lastKeyword = keyword,
                                     !.lastLocation = location,
                                     !.lastCountry = country ],
            !.jobsDom = [ @ EXCEPT !.loadingHidden = FALSE,
                                   !.grid = <<>>,
                                   !.emptyHidden = TRUE,
                                   !.errorHidden = TRUE,
                                   !.paginationHidden = TRUE ],
            !.fetches = Append(@, [ keyword |-> keyword, location |-> location,
                                    country |-> country, page |-> page ]) ]

\* renderJobResults(jobs)
renderJobResults(w, jobs) ==
    LET shown == [w EXCEPT !.jobsDom.loadingHidden = TRUE]
        totalPages == ceilDiv(w.jobsState.totalResults, w.jobsState.resultsPerPage)
    IN  IF Len(jobs) = 0 THEN [shown EXCEPT !.jobsDom.emptyHidden = FALSE]
        ELSE IF totalPages > 1
        THEN [ shown EXCEPT
                 !.jobsDom.grid = jobs,
                 !.jobsDom.paginationHidden = FALSE,
                 !.jobsDom.pageInfo = << w.jobsState.currentPage, totalPages,
                                         w.jobsState.totalResults >>,
                 !.jobsDom.prevDisabled = (w.jobsState.currentPage <= 1),
                 !.jobsDom.nextDisabled = (w.jobsState.currentPage >= totalPages) ]
        ELSE [shown EXCEPT !.jobsDom.grid = jobs]

\* the rest of searchJobs, once the response to a request is there
searchJobsResumed(w, response) ==
    IF ~response.ok
    THEN [ w EXCEPT !.jobsDom.loadingHidden = TRUE,
                    !.jobsDom.errorHidden = FALSE,
                    !.jobsDom.errorText = response.message ]
    ELSE renderJobResults([w EXCEPT !.jobsState.totalResults = response.count],
                          response.results)

(***************************************************************************)
(* Actions                                                                 *)
(***************************************************************************)

HarnessIdle ==
    /\ arg = JsUndefined
    /\ ret = [done |-> FALSE, value |-> <<>>]

TrackerInit == becomesInitially(initialWorld)

SwitchView(viewName) ==
    /\ \E w \in switchView(world, viewName) : becomes(w)
    /\ UNCHANGED harnessVars

HandleAddCompany(raw) ==
    /\ Len(appState.companies) < MaxCompanies
    /\ \E t \in ClockReadings : becomes(handleAddCompany(world, raw, t))
    /\ UNCHANGED harnessVars

AddJobToTracker(description) ==
    /\ Len(appState.companies) < MaxCompanies
    /\ \E t \in ClockReadings : becomes(addJobToTracker(world, description, t))
    /\ UNCHANGED harnessVars

HandleUpdateSkills(raw) ==
    /\ becomes(handleUpdateSkills(world, raw))
    /\ UNCHANGED harnessVars

ViewCompanyDetail(companyId) ==
    /\ findIndexById(appState.companies, companyId, 1) # 0
    /\ becomes(viewCompanyDetail(world, companyId))
    /\ UNCHANGED harnessVars

DeleteCompany(companyId, confirmed) ==
    /\ IF findIndexById(appState.companies, companyId, 1) # 0 /\ confirmed
       THEN becomes(deleteCompany(world, companyId))
       ELSE UNCHANGED trackerVars
    /\ UNCHANGED harnessVars

ImportData(file, confirmed) ==
    /\ \E next \in importData(world, file, confirmed) : becomes(next)
    /\ UNCHANGED harnessVars

ClearAllData(confirm1, confirm2) ==
    /\ IF confirm1 /\ confirm2 THEN \E next \in clearAllData(world) : becomes(next)
       ELSE UNCHANGED trackerVars
    /\ UNCHANGED harnessVars

EditJdaText(text) ==
    /\ text # jdaDom.text
    /\ becomes(editJdaText(world, text))
    /\ UNCHANGED harnessVars

AnalyzeJD ==
    /\ IF trim(jdaDom.text) = <<>> THEN UNCHANGED trackerVars
       ELSE \E next \in {analyzeJD(world)} :
                Len(next.timers) <= MaxTimers /\ becomes(next)
    /\ UNCHANGED harnessVars

BarTimerFires ==
    /\ timers # <<>>
    /\ becomes(barTimerFires(world))
    /\ UNCHANGED harnessVars

AddJDAToTracker ==
    /\ Len(appState.companies) < MaxJdaCompanies
    /\ IF Len(jdaExtractedSkills) = 0 THEN UNCHANGED trackerVars
       ELSE \E t \in ClockReadings : becomes(addJDAToTracker(world, t))
    /\ UNCHANGED harnessVars

ClearJDA ==
    /\ becomes(clearJDA(world))
    /\ UNCHANGED harnessVars

\* the page has run its DOMContentLoaded listener
PageLoaded == out # plainView("none")

DomContentLoaded ==
    /\ ~PageLoaded
    /\ becomes(domContentLoaded(world))
    /\ arg' = [op |-> "load"]
    /\ ret' = [done |-> TRUE, value |-> "loaded"]

\* handleImportFile(file): importData(file) and the state of its promise
ImportFile(file, readable, confirmed) ==
    /\ PageLoaded
    /\ \E outcome \in importDataOutcomes(world, file, readable, confirmed) :
          /\ becomes(outcome.world)
          /\ ret' = [done |-> TRUE, value |-> outcome.promise]
    /\ arg' = [op |-> "import", file |-> file, readable |-> readable, confirmed |-> confirmed]

\* a click on a navigation link
NavigateTo(viewName) ==
    /\ PageLoaded
    /\ \E next \in switchViewOrThrow(world, viewName) : becomes(next)
    /\ UNCHANGED harnessVars

(***************************************************************************)
(* The readiness views over the tracker states                             *)
(*                                                                         *)
(* The states are those the page is in after at most MaxCompanies          *)
(* submissions of the add-company form or "track this job" clicks, each at *)
(* a later clock reading, followed by at most one update of the skills.    *)
(***************************************************************************)

RECURSIVE worldsAfterAdding(_)
worldsAfterAdding(n) ==
    IF n = 0 THEN {initialWorld}
    ELSE LET before == worldsAfterAdding(n - 1)
             full == {w \in before : Len(w.appState.companies) = n - 1}
         IN  before
               \cup {handleAddCompany(w, raw, w.now + 1) : w \in full, raw \in CompanySkillInputs}
               \cup {addJobToTracker(w, d, w.now + 1) : w \in full, d \in JobDescriptions}

TrackerWorlds ==
    LET added == worldsAfterAdding(MaxCompanies)
    IN  added \cup {handleUpdateSkills(w, raw) : w \in added, raw \in UserSkillInputs}

InitReadiness ==
    /\ \E w \in TrackerWorlds : becomesInitially(w)
    /\ HarnessIdle

NextReadiness ==
    \/ \E v \in DerivedViewNames : SwitchView(v)
    \/ \E id \in 1..MaxCompanies : ViewCompanyDetail(id)

SpecReadiness == InitReadiness /\ [][NextReadiness]_vars

(***************************************************************************)
(* The JD analyzer                                                         *)
(***************************************************************************)

\* what the user pastes into the JD text box
JdaTexts == {
    <<"h","e","l","l","o","!">>,
    <<" ","P","y","t","h","o","n"," ","a","n","d"," ","G","o"," ">>
}

JdaWorlds ==
    {initialWorld} \cup {handleUpdateSkills(initialWorld, raw) : raw \in UserSkillInputs}

InitJDA ==
    /\ \E w \in JdaWorlds : becomesInitially(w)
    /\ HarnessIdle

NextJDA ==
    \/ \E text \in JdaTexts : EditJdaText(text)
    \/ AnalyzeJD
    \/ BarTimerFires
    \/ AddJDAToTracker
    \/ ClearJDA

SpecJDA == InitJDA /\ [][NextJDA]_vars

(***************************************************************************)
(* The JD analyzer's score, for job descriptions that list many skills     *)
(***************************************************************************)

\* skills listed by the longest job description
MaxListed == 41

\* Array.prototype.join on a one-character separator
RECURSIVE join(_, _)
join(arr, sep) ==
    IF arr = <<>> THEN <<>>
    ELSE IF Len(arr) = 1 THEN arr[1]
    ELSE arr[1] \o <<sep>> \o join(Tail(arr), sep)

\* a job description that lists the first n skills of the vocabulary
jdListing(n) == join(SubSeq(KNOWN_SKILLS, 1, n), " ")

\* what a user who has the first k skills of the vocabulary types, in lower
\* case, into the skills form
skillsTyped(k) == join(mapToLowerCase(SubSeq(KNOWN_SKILLS, 1, k)), ",")

\* the page after the skills form was submitted and a job description pasted
ScoreWorlds ==
    { editJdaText(handleUpdateSkills(initialWorld, skillsTyped(k)), jdListing(n)) :
        n \in (MaxListed - 1)..MaxListed, k \in 0..MaxListed }

InitJdaScore ==
    /\ \E w \in ScoreWorlds : becomesInitially(w)
    /\ HarnessIdle

NextJdaScore ==
    \/ AnalyzeJD
    \/ BarTimerFires

SpecJdaScore == InitJdaScore /\ [][NextJdaScore]_vars

(***************************************************************************)
(* The same skills typed as requirement, as possession and as description  *)
(***************************************************************************)

\* skill lists the user types into the add-company form and the skills form,
\* and pastes as a job description
SkillListsTyped == {
    <<"G","o">>,
    <<"P","y","t","h","o","n",","," ","G","o">>
}

RECURSIVE worldsAfterTyping(_)
worldsAfterTyping(n) ==
    IF n = 0 THEN {initialWorld}
    ELSE LET before == worldsAfterTyping(n - 1)
             full == {w \in before : Len(w.appState.companies) = n - 1}
         IN  before
               \cup {handleAddCompany(w, raw, w.now + 1) : w \in full, raw \in SkillListsTyped}

\* the page after the forms were submitted and a description was pasted
SameSkillsWorlds ==
    { editJdaText(handleUpdateSkills(w, raw), text) :
        w \in worldsAfterTyping(MaxJdaCompanies) \ {initialWorld},
        raw \in SkillListsTyped, text \in SkillListsTyped }

InitSameSkills ==
    /\ \E w \in SameSkillsWorlds : becomesInitially(w)
    /\ HarnessIdle

NextSameSkills ==
    \/ \E v \in DerivedViewNames : SwitchView(v)
    \/ \E id \in 1..MaxJdaCompanies : ViewCompanyDetail(id)
    \/ AnalyzeJD
    \/ BarTimerFires

SpecSameSkills == InitSameSkills /\ [][NextSameSkills]_vars

(***************************************************************************)
(* The operations that write appState                                      *)
(***************************************************************************)

\* clock readings of the session
MaxClock == 2

\* companies in the tracker while backups are imported
MaxKeptCompanies == 1

\* backup files the user picks: one that is not JSON, one without data, one
\* whose userSkills is not an array, and two backups
ImportFiles ==
    LET goCompany == [ id |-> 1, requiredSkills |-> << <<"G","o">> >>,
                       description |-> JsUndefined ]
        noView == [isString |-> TRUE, chars |-> ""]
        skillsView == [isString |-> TRUE, chars |-> "skills"]
    IN  { [ parses |-> FALSE, data |-> backupData(JsArray(<<>>), JsArray(<<>>), noView) ],
          [ parses |-> TRUE,
            data |-> [backupData(JsArray(<<>>), JsArray(<<>>), noView) EXCEPT !.present = FALSE] ],
          [ parses |-> TRUE, data |-> backupData(JsArray(<<>>), NotAnArray, skillsView) ],
          [ parses |-> TRUE, data |-> backupData(JsArray(<<>>), JsArray(<<>>), noView) ],
          [ parses |-> TRUE,
            data |-> backupData(JsArray(<<goCompany>>), JsArray(<< <<"G","o">> >>), skillsView) ] }

\* what the user types into the add-company form in these sessions
RequirementsTyped == { <<"G","o">> }

InitWrites ==
    /\ TrackerInit
    /\ HarnessIdle

\* the session may add a company while the clock and the list allow
MayAdd == now < MaxClock /\ Len(appState.companies) < MaxKeptCompanies

NextWrites ==
    \/ \E raw \in UserSkillInputs : HandleUpdateSkills(raw)
    \/ \E raw \in RequirementsTyped : MayAdd /\ HandleAddCompany(raw)
    \/ \E d \in JobDescriptions : MayAdd /\ AddJobToTracker(d)
    \/ \E id \in 0..MaxClock, confirmed \in BOOLEAN : DeleteCompany(id, confirmed)
    \/ \E v \in ViewNames : SwitchView(v)
    \/ \E file \in ImportFiles, confirmed \in BOOLEAN : ImportData(file, confirmed)
    \/ \E confirm1, confirm2 \in BOOLEAN : ClearAllData(confirm1, confirm2)

SpecWrites == InitWrites /\ [][NextWrites]_vars

(***************************************************************************)
(* Company ids: the three operations that add a company                    *)
(***************************************************************************)

\* the analyzer holds the extraction of a pasted job description
AnalyzedWorlds ==
    { analyzeJD(editJdaText(initialWorld, text)) :
          text \in {t \in JdaTexts : extractSkillsFromText(JsString(trim(t))) # <<>>} }

InitIds ==
    /\ \E w \in AnalyzedWorlds : becomesInitially(w)
    /\ HarnessIdle

NextIds ==
    \/ \E raw \in CompanySkillInputs : HandleAddCompany(raw)
    \/ \E d \in JobDescriptions : AddJobToTracker(d)
    \/ AddJDAToTracker
    \/ BarTimerFires

SpecIds == InitIds /\ [][NextIds]_vars

(***************************************************************************)
(* The job-search proxy: server.js and api/jobs.js                         *)
(*                                                                         *)
(* Texts of the proxy are sequences of pieces; a credential is one piece,  *)
(* so a text holds a credential when the piece occurs in it.               *)
(***************************************************************************)

\* process.env.X: unset, or a string
EnvUnset == [isSet |-> FALSE, text |-> ""]
EnvValue(text) == [isSet |-> TRUE, text |-> text]

\* `${value}` of an environment variable
templateOfEnv(v) == IF v.isSet THEN v.text ELSE "undefined"

\* !value of an environment variable: unset and the empty string are falsy
isFalsyEnv(v) == ~v.isSet \/ v.text = ""

\* req.query.X with its default
queryOr(q, default) == IF q.isSet THEN q.text ELSE default

\* the Adzuna URL both handlers build
adzunaUrl(appId, appKey, query) ==
    << "https://api.adzuna.com/v1/api/jobs/", queryOr(query.country, "in"),
       "/search/", queryOr(query.page, "1"),
       "?app_id=", appId, "&app_key=", appKey, "&results_per_page=12",
       "&what=", queryOr(query.keyword, "software developer") >>
    \o (IF queryOr(query.location, "") # ""
        THEN << "&where=", queryOr(query.location, "") >>
        ELSE <<>>)

\* error.message of the FetchError with which fetch(url) rejects when the
\* request fails
requestFailedMessage(url, reason) ==
    << "request to " >> \o url \o << " failed, reason: ", reason >>

\* error.message of the FetchError with which response.json() rejects when
\* the body is not JSON
invalidJsonMessage(url) ==
    << "invalid json response body at " >> \o url \o << " reason: Unexpected token" >>

\* what the upstream does with fetch(url)
\*   kind "ok": status 200 and a JSON body with count and results
\*   kind "notJson": status 200 and a body that is not JSON
\*   kind "error": a non-OK status and a text body
\*   kind "echo": a non-OK status and a text body that quotes the request
\*   kind "down": the request fails
Upstreams ==
    { [kind |-> "ok", status |-> 200, count |-> 2, reason |-> ""],
      [kind |-> "ok", status |-> 200, count |-> 0, reason |-> ""],
      [kind |-> "notJson", status |-> 200, count |-> 0, reason |-> ""],
      [kind |-> "error", status |-> 401, count |-> 0, reason |-> "AUTH_FAIL"],
      [kind |-> "echo", status |-> 400, count |-> 0, reason |-> "Bad request: "],
      [kind |-> "down", status |-> 0, count |-> 0, reason |-> "getaddrinfo ENOTFOUND api.adzuna.com"] }

\* the upstream's error text
errTextOf(upstream, url) ==
    IF upstream.kind = "echo" THEN << upstream.reason >> \o url ELSE << upstream.reason >>

jsonResponse(status, error, message, count) ==
    [ status |-> status, ended |-> FALSE, error |-> error, message |-> message, count |-> count ]

\* the try/catch of both handlers, from fetch(adzunaUrl) on
forwardToAdzuna(url, upstream) ==
    IF upstream.kind = "down"
    THEN jsonResponse(500, << "Failed to fetch jobs" >>,
                      requestFailedMessage(url, upstream.reason), 0)
    ELSE IF upstream.kind \in {"error", "echo"}
    THEN jsonResponse(upstream.status, << "Adzuna API error: ", ToString(upstream.status) >>,
                      errTextOf(upstream, url), 0)
    ELSE IF upstream.kind = "notJson"
    THEN jsonResponse(500, << "Failed to fetch jobs" >>, invalidJsonMessage(url), 0)
    ELSE jsonResponse(200, <<>>, <<>>, upstream.count)

\* app.get('/api/jobs') of server.js
expressJobs(env, query, upstream) ==
    forwardToAdzuna(adzunaUrl(templateOfEnv(env.appId), templateOfEnv(env.appKey), query),
                    upstream)

\* handler of api/jobs.js
serverlessJobs(env, method, query, upstream) ==
    IF method = "OPTIONS"
    THEN [jsonResponse(200, <<>>, <<>>, 0) EXCEPT !.ended = TRUE]
    ELSE IF isFalsyEnv(env.appId) \/ isFalsyEnv(env.appKey)
    THEN jsonResponse(500, << "API keys not configured" >>,
                      << "Set ADZUNA_APP_ID and ADZUNA_APP_KEY in Vercel Environment Variables." >>, 0)
    ELSE forwardToAdzuna(adzunaUrl(env.appId.text, env.appKey.text, query), upstream)

\* process.env.X !== 'placeholder': an unset variable is undefined
differsFrom(v, placeholder) == ~v.isSet \/ v.text # placeholder

\* app.get('/api/health') of server.js
expressHealth(env) ==
    [ status |-> 200, ended |-> FALSE, error |-> <<>>, count |-> 0,
      keysConfigured |-> /\ differsFrom(env.appId, "your_app_id_here")
                         /\ differsFrom(env.appKey, "your_app_key_here"),
      message |-> IF /\ differsFrom(env.appId, "your_app_id_here")
                     /\ differsFrom(env.appKey, "your_app_key_here")
                  THEN << "Adzuna keys are configured" >>
                  ELSE << "Please update ADZUNA_APP_ID and ADZUNA_APP_KEY in your .env file" >> ]

\* handler of api/health.js
serverlessHealth(env) ==
    [ status |-> 200, ended |-> FALSE, error |-> <<>>, count |-> 0,
      keysConfigured |-> ~isFalsyEnv(env.appId) /\ ~isFalsyEnv(env.appKey),
      message |-> IF ~isFalsyEnv(env.appId) /\ ~isFalsyEnv(env.appKey)
                  THEN << "Adzuna API ready" >>
                  ELSE << "Set ADZUNA_APP_ID and ADZUNA_APP_KEY in Vercel Environment Variables" >> ]

\* values of ADZUNA_APP_ID and ADZUNA_APP_KEY
AppIds == { EnvUnset, EnvValue(""), EnvValue("your_app_id_here"), EnvValue("4f1c9a2b") }
AppKeys == { EnvUnset, EnvValue(""), EnvValue("your_app_key_here"), EnvValue("9d8e7f6a5b4c") }

Environments == { [appId |-> i, appKey |-> k] : i \in AppIds, k \in AppKeys }

\* query strings of /api/jobs
Queries ==
    { [ keyword |-> k, location |-> l, country |-> EnvUnset, page |-> p ] :
          k \in {EnvUnset, EnvValue("react")},
          l \in {EnvUnset, EnvValue("India")},
          p \in {EnvUnset, EnvValue("2")} }

ProxyRequests ==
    { [ env |-> e, method |-> m, query |-> q, upstream |-> u ] :
          e \in Environments, m \in {"GET", "OPTIONS"}, q \in Queries, u \in Upstreams }

InitProxy ==
    /\ TrackerInit
    /\ arg \in ProxyRequests
    /\ ret = [done |-> FALSE, value |-> <<>>]

\* Express routes GET requests only to app.get('/api/jobs')
CallExpressJobs ==
    /\ ~ret.done
    /\ arg.method = "GET"
    /\ ret' = [done |-> TRUE,
               value |-> [handler |-> "server.js",
                          response |-> expressJobs(arg.env, arg.query, arg.upstream)]]
    /\ UNCHANGED <<arg, trackerVars>>

CallServerlessJobs ==
    /\ ~ret.done
    /\ ret' = [done |-> TRUE,
               value |-> [handler |-> "api/jobs.js",
                          response |-> serverlessJobs(arg.env, arg.method, arg.query, arg.upstream)]]
    /\ UNCHANGED <<arg, trackerVars>>

CallExpressHealth ==
    /\ ~ret.done
    /\ arg.method = "GET"
    /\ ret' = [done |-> TRUE,
               value |-> [handler |-> "server.js health", response |-> expressHealth(arg.env)]]
    /\ UNCHANGED <<arg, trackerVars>>

CallServerlessHealth ==
    /\ ~ret.done
    /\ ret' = [done |-> TRUE,
               value |-> [handler |-> "api/health.js", response |-> serverlessHealth(arg.env)]]
    /\ UNCHANGED <<arg, trackerVars>>

NextProxy ==
    \/ CallExpressJobs
    \/ CallServerlessJobs
    \/ CallExpressHealth
    \/ CallServerlessHealth

SpecProxy == InitProxy /\ [][NextProxy]_vars

(***************************************************************************)
(* Persistence: the stored item at page load and the backup files          *)
(***************************************************************************)

StringValue(chars) == [isString |-> TRUE, chars |-> chars]
NotAString == [isString |-> FALSE, chars |-> ""]

\* a company as handleAddCompany writes it, and an object without
\* requiredSkills
GoCompany == [id |-> 1, requiredSkills |-> << <<"G","o">> >>, description |-> JsUndefined]
BareCompany == [id |-> 2, description |-> JsUndefined]

\* the data member of the files and stored items explored
DataValues ==
    { [backupData(JsArray(<<>>), JsArray(<<>>), StringValue("")) EXCEPT !.present = FALSE],
      backupData(NotAnArray, JsArray(<<>>), StringValue("dashboard")),
      backupData(JsArray(<<>>), NotAnArray, StringValue("skills")),
      backupData(JsArray(<<>>), JsArray(<<>>), NotAString),
      backupData(JsArray(<<>>), JsArray(<<>>), StringValue("")),
      backupData(JsArray(<<GoCompany>>), JsArray(<< <<"G","o">> >>), StringValue("skills")),
      backupData(JsArray(<<GoCompany>>), JsArray(<<>>), StringValue("progress")),
      backupData(JsArray(<<GoCompany, BareCompany>>), JsArray(<<>>), StringValue("dashboard")),
      backupData(JsArray(<<BareCompany>>), JsArray(<<>>), StringValue("jdanalyzer")) }

\* backup files: texts that do not parse and texts that do
PersistFiles ==
    { [parses |-> FALSE, data |-> d] : d \in {backupData(JsArray(<<>>), JsArray(<<>>), StringValue(""))} }
    \cup { [parses |-> TRUE, data |-> d] : d \in DataValues }

\* what localStorage holds when the page loads: nothing, an item written by
\* saveToLocalStorage in an earlier session, or a foreign item
StoredItems ==
    { <<>> }
    \cup { w.storage : w \in { handleUpdateSkills(handleAddCompany(initialWorld, raw, 1), raw) :
                                  raw \in UserSkillInputs } }
    \cup { foreignItem(f.parses, version, f.data) :
              f \in PersistFiles, version \in {STORAGE_VERSION, <<"0",".","9">>} }

InitPersist ==
    /\ \E item \in StoredItems : becomesInitially([initialWorld EXCEPT !.storage = item])
    /\ HarnessIdle

NextPersist ==
    \/ DomContentLoaded
    \/ \E file \in PersistFiles, readable, confirmed \in BOOLEAN :
           ImportFile(file, readable, confirmed)
    \/ \E v \in ViewNames : NavigateTo(v)

SpecPersist == InitPersist /\ [][NextPersist]_vars

(***************************************************************************)
(* The Jobs view: searches whose responses arrive in any order             *)
(***************************************************************************)

\* requests to /api/jobs that await their response
MaxPending == 2
\* pages of results the user walks through
MaxPage == 3

\* what the user types into the keyword box
JobKeywords ==
    { <<"r","e","a","c","t">>, <<"j","a","v","a">>, <<" ">>, <<"r","u","s","t">> }

\* the postings the job API has for a keyword; it fails for "rust"
postingsFor(keyword) ==
    IF keyword = <<"r","e","a","c","t">> THEN 30
    ELSE IF keyword = <<"j","a","v","a">> THEN 5
    ELSE 0

\* the response of /api/jobs to a request: the count, and the postings of
\* the requested page, twelve to a page
responseTo(request) ==
    IF request.keyword = <<"r","u","s","t">>
    THEN [ ok |-> FALSE, count |-> 0, results |-> <<>>, message |-> "Server error 500" ]
    ELSE LET count == postingsFor(request.keyword)
             before == 12 * (request.page - 1)
             onPage == IF count - before >= 12 THEN 12
                       ELSE IF count - before > 0 THEN count - before ELSE 0
         IN  [ ok |-> TRUE, count |-> count,
               results |-> [ k \in 1..onPage |->
                               [ keyword |-> request.keyword, posting |-> before + k ] ],
               message |-> "" ]

TypeJobKeyword(keyword) ==
    /\ keyword # jobsDom.keyword
    /\ becomes([world EXCEPT !.jobsDom.keyword = keyword])
    /\ UNCHANGED harnessVars

\* the Search button, the Enter key, a quick tag
SearchJobs ==
    /\ Len(fetches) < MaxPending
    /\ becomes(searchJobs(world, 1))
    /\ UNCHANGED harnessVars

\* loadJobsPage(direction), from the Previous and Next buttons of the
\* pagination when they are shown and enabled
LoadJobsPage(direction) ==
    /\ ~jobsDom.paginationHidden
    /\ IF direction = 1 THEN ~jobsDom.nextDisabled ELSE ~jobsDom.prevDisabled
    /\ Len(fetches) < MaxPending
    /\ jobsState.currentPage + direction <= MaxPage
    /\ IF jobsState.currentPage + direction < 1 THEN UNCHANGED trackerVars
       ELSE becomes(searchJobs(world, jobsState.currentPage + direction))
    /\ UNCHANGED harnessVars

\* the response to one of the pending requests arrives
DeliverResponse(i) ==
    /\ i \in 1..Len(fetches)
    /\ LET request == fetches[i]
           others == [ k \in 1..(Len(fetches) - 1) |->
                         IF k < i THEN fetches[k] ELSE fetches[k + 1] ]
       IN  becomes(searchJobsResumed([world EXCEPT !.fetches = others], responseTo(request)))
    /\ UNCHANGED harnessVars

InitJobs ==
    /\ TrackerInit
    /\ HarnessIdle

NextJobs ==
    \/ \E keyword \in JobKeywords : TypeJobKeyword(keyword)
    \/ SearchJobs
    \/ \E direction \in {-1, 1} : LoadJobsPage(direction)
    \/ \E i \in 1..MaxPending : DeliverResponse(i)

SpecJobs == InitJobs /\ [][NextJobs]_vars

(***************************************************************************)
(* Adding and deleting companies                                           *)
(***************************************************************************)

InitDelete ==
    /\ TrackerInit
    /\ HarnessIdle

NextDelete ==
    \/ \E raw \in CompanySkillInputs : now < MaxClock /\ HandleAddCompany(raw)
    \/ \E id \in 0..MaxClock, confirmed \in BOOLEAN : DeleteCompany(id, confirmed)
    \/ \E v \in {"dashboard", "companies"} : SwitchView(v)

SpecDelete == InitDelete /\ [][NextDelete]_vars

(***************************************************************************)
(* The percentage arithmetic of the four views                             *)
(***************************************************************************)

MaxSkillCount == 40

\* matched skills out of matched + missing
PercentInputs ==
    {[count |-> c, total |-> t] : c \in 0..MaxSkillCount, t \in 0..MaxSkillCount}

InitPercent ==
    /\ TrackerInit
    /\ arg \in {p \in PercentInputs : p.count <= p.total}
    /\ ret = [done |-> FALSE, value |-> JsNumber(0)]

Returns(value) ==
    /\ ~ret.done
    /\ ret' = [done |-> TRUE, value |-> value]
    /\ UNCHANGED <<arg, trackerVars>>

\* renderDashboard's overallProgress
CallOverallProgress == Returns(overallProgressOf(arg.count, arg.total))

\* renderSkillGapAnalysis's Skill Readiness
CallSkillReadiness == Returns(skillReadinessOf(arg.count, arg.total - arg.count))

\* renderProgress's percentage
CallPercentage == Returns(percentageOf(arg.count, arg.total))

\* analyzeJD's score, computed only for a non-empty extraction
CallScore == arg.total > 0 /\ Returns(scoreOf(arg.count, arg.total))

NextPercent ==
    \/ CallOverallProgress
    \/ CallSkillReadiness
    \/ CallPercentage
    \/ CallScore

SpecPercent == InitPercent /\ [][NextPercent]_vars

(***************************************************************************)
(* Inputs of extractSkillsFromText: texts assembled from fragments         *)
(***************************************************************************)

MaxFragments == 3

Fragments == {
    <<"R","e","a","c","t"," ","N","a","t","i","v","e">>,
    <<"g","o">>,
    <<"P","Y","T","H","O","N">>,
    <<" ">>,
    <<"j","a","v","a">>,
    <<"S","c","r","i","p","t">>,
    <<".","N","E","T">>,
    <<"!","?">>
}

RECURSIVE TextsUpTo(_)
TextsUpTo(n) ==
    IF n = 0 THEN {<<>>}
    ELSE LET shorter == TextsUpTo(n - 1)
         IN  shorter \cup {t \o f : t \in shorter, f \in Fragments}

ExtractInputs == {JsString(t) : t \in TextsUpTo(MaxFragments)} \cup {JsNull, JsUndefined}

InitExtract ==
    /\ TrackerInit
    /\ arg \in ExtractInputs
    /\ ret = [done |-> FALSE, value |-> <<>>]

CallExtractSkillsFromText ==
    /\ ~ret.done
    /\ ret' = [done |-> TRUE, value |-> extractSkillsFromText(arg)]
    /\ UNCHANGED <<arg, trackerVars>>

NextExtract == CallExtractSkillsFromText

SpecExtract == InitExtract /\ [][NextExtract]_vars

(***************************************************************************)
(* What the specification means by its terms                               *)
(***************************************************************************)

Range(seq) == {seq[i] : i \in 1..Len(seq)}

\* skill occurs in text when both are compared ignoring case
ContainsIgnoringCase(text, skill) ==
    \E p \in 0..(Len(text) - Len(skill)) :
        \A k \in 1..Len(skill) :
            toLowerCaseChar(text[p + k]) = toLowerCaseChar(skill[k])

VocabIndex(skill) == CHOOSE i \in 1..Len(KNOWN_SKILLS) : KNOWN_SKILLS[i] = skill

\* C1: extractSkillsFromText(text) is the vocabulary filtered by "the
\* lower-cased entry is a substring of the lower-cased text": every such entry
\* is returned in its vocabulary casing, nothing else is, and the entries
\* come in vocabulary order.
C1_ExtractIsVocabularyFilter ==
    ret.done =>
        /\ \A j \in 1..Len(ret.value) : ret.value[j] \in Range(KNOWN_SKILLS)
        /\ \A i \in 1..Len(KNOWN_SKILLS) :
              (KNOWN_SKILLS[i] \in Range(ret.value))
                  <=> ContainsIgnoringCase(arg.chars, KNOWN_SKILLS[i])
        /\ \A j, k \in 1..Len(ret.value) :
              j < k => VocabIndex(ret.value[j]) < VocabIndex(ret.value[k])

\* a mixed-case text from which several entries are extracted
C1_Witness ==
    /\ ret.done
    /\ arg = JsString(<<"P","Y","T","H","O","N"," ","R","e","a","c","t"," ","N","a","t","i","v","e">>)
    /\ ret.value = << <<"P","y","t","h","o","n">>, <<"C">>, <<"R">>, <<"R","e","a","c","t">>,
                      <<"R","e","a","c","t"," ","N","a","t","i","v","e">> >>


\* two skill names are the same skill when they are equal ignoring case
EqualsIgnoringCase(a, b) ==
    /\ Len(a) = Len(b)
    /\ \A k \in 1..Len(a) : toLowerCaseChar(a[k]) = toLowerCaseChar(b[k])

\* the user possesses a skill when some entry of userSkills is that skill
Possessed(skill, userSkills) ==
    \E i \in 1..Len(userSkills) : EqualsIgnoringCase(userSkills[i], skill)

\* the skills of a list, one per skill, in first-seen casing and order
RECURSIVE DedupIgnoringCase(_)
DedupIgnoringCase(skills) ==
    IF skills = <<>> THEN <<>>
    ELSE LET earlier == DedupIgnoringCase(SubSeq(skills, 1, Len(skills) - 1))
             last == skills[Len(skills)]
         IN  IF \E i \in 1..Len(earlier) : EqualsIgnoringCase(earlier[i], last)
             THEN earlier
             ELSE Append(earlier, last)

RECURSIVE RequiredByAll(_)
RequiredByAll(companies) ==
    IF companies = <<>> THEN <<>>
    ELSE Head(companies).requiredSkills \o RequiredByAll(Tail(companies))

\* the distinct skills required across all companies
RequiredUnion(companies) == DedupIgnoringCase(RequiredByAll(companies))

CountPossessed(skills, userSkills) ==
    Cardinality({j \in 1..Len(skills) : Possessed(skills[j], userSkills)})

\* 100 * count / total rounded to the nearest integer, halves up
NearestPercent(count, total) ==
    CHOOSE r \in 0..100 :
        /\ 2 * r * total <= 200 * count + total
        /\ 200 * count + total < 2 * (r + 1) * total

ProgressShown == out.kind = "progress" /\ ~out.empty
SkillGapShown == out.kind = "skills" /\ ~out.empty
DashboardShown == out.kind = "dashboard"
DetailShown == out.kind = "detail"

RequiredOf(i) == appState.companies[i].requiredSkills

(***************************************************************************)
(* Properties of the readiness views (SpecReadiness)                       *)
(***************************************************************************)

\* C2: in the per-company progress, a company with no required skills has
\* readiness 0.
C2_EmptyCompanyReadinessIsZero ==
    ProgressShown =>
        \A k \in 1..Len(out.progressItems) :
            out.progressItems[k].totalSkills = 0
                => out.progressItems[k].percentage = JsNumber(0)

\* C3: every view classifies a required skill as possessed exactly when some
\* entry of userSkills equals it ignoring case.
C3_ClassificationIgnoresCase ==
    /\ ProgressShown =>
          \A k \in 1..Len(out.progressItems) :
              out.progressItems[k].acquiredSkills =
                  CountPossessed(RequiredOf(out.progressItems[k].company), appState.userSkills)
    /\ DetailShown =>
          LET has(skill) == Possessed(skill, appState.userSkills)
              lacks(skill) == ~Possessed(skill, appState.userSkills)
          IN  /\ out.proficientSkills = SelectSeq(RequiredOf(out.company), has)
              /\ out.neededSkills = SelectSeq(RequiredOf(out.company), lacks)
    /\ DashboardShown =>
          out.skillsAcquired = CountPossessed(out.allRequiredSkills, appState.userSkills)
    /\ SkillGapShown =>
          LET has(skill) == Possessed(skill, appState.userSkills)
          IN  out.proficientSkills = SelectSeq(out.allRequiredSkills, has)

\* C4: the union of required skills shown by the skill-gap view and counted
\* by the dashboard holds each skill once, ignoring case, in first-seen
\* casing and order.
C4_UnionDedupIgnoresCase ==
    (SkillGapShown \/ DashboardShown) =>
        out.allRequiredSkills = RequiredUnion(appState.companies)

\* C5: when every company has at least one required skill, the progress
\* view lists every company once, by ascending percentage, and companies of
\* equal percentage in insertion order.
C5_ProgressSortedStable ==
    (ProgressShown /\ \A i \in 1..Len(appState.companies) : RequiredOf(i) # <<>>) =>
        /\ Len(out.progressItems) = Len(appState.companies)
        /\ {out.progressItems[k].company : k \in 1..Len(out.progressItems)}
              = 1..Len(appState.companies)
        /\ \A j, k \in 1..Len(out.progressItems) :
              j < k =>
                LET a == out.progressItems[j]
                    b == out.progressItems[k]
                IN  /\ ~a.percentage.nan /\ ~b.percentage.nan
                    /\ \/ a.percentage.n < b.percentage.n
                       \/ a.percentage.n = b.percentage.n /\ a.company < b.company

\* three companies, the first ahead of two that tie below it
C5_Witness ==
    /\ ProgressShown
    /\ \A i \in 1..Len(appState.companies) : RequiredOf(i) # <<>>
    /\ Len(out.progressItems) = 3
    /\ out.progressItems[1].company = 2
    /\ out.progressItems[2].company = 3
    /\ out.progressItems[3].company = 1
    /\ out.progressItems[1].percentage = out.progressItems[2].percentage
    /\ out.progressItems[2].percentage # out.progressItems[3].percentage

\* C6: for A (Python, SQL), B (no required skills) and C (Go), added in that
\* order, and userSkills [Python], the progress view lists B, C, A with
\* percentages 0, 0, 50.
C6_EmptyCompaniesSortFirst ==
    ( /\ ProgressShown
      /\ Len(appState.companies) = 3
      /\ RequiredOf(1) = << <<"P","y","t","h","o","n">>, <<"S","Q","L">> >>
      /\ RequiredOf(2) = <<>>
      /\ RequiredOf(3) = << <<"G","o">> >>
      /\ appState.userSkills = << <<"P","y","t","h","o","n">> >> )
    =>
        /\ [k \in 1..3 |-> out.progressItems[k].company] = <<2, 3, 1>>
        /\ [k \in 1..3 |-> out.progressItems[k].percentage]
              = <<JsNumber(0), JsNumber(0), JsNumber(50)>>

\* matched and missing split the skills of required: no skill is in both,
\* and together they are the skills of required
SplitsRequired(matched, missing, required) ==
    /\ \A i \in 1..Len(matched), j \in 1..Len(missing) :
          ~EqualsIgnoringCase(matched[i], missing[j])
    /\ Range(matched) \cup Range(missing) = Range(required)

\* C7: the matched and missing lists of the skill-gap view and of the
\* company detail are disjoint and together are the deduplicated required
\* skills.
C7_MatchedMissingPartitionRequired ==
    /\ SkillGapShown =>
          SplitsRequired(out.proficientSkills, out.neededSkills,
                         RequiredUnion(appState.companies))
    /\ DetailShown =>
          SplitsRequired(out.proficientSkills, out.neededSkills,
                         DedupIgnoringCase(RequiredOf(out.company)))

\* C9: the dashboard's overall progress is the share of the distinct
\* required skills that the user possesses, rounded to the nearest integer,
\* and 0 when no skill is required.
C9_OverallReadinessOfDistinctSkills ==
    DashboardShown =>
        LET required == RequiredUnion(appState.companies)
        IN  out.overallProgress =
                IF required = <<>> THEN JsNumber(0)
                ELSE JsNumber(NearestPercent(CountPossessed(required, appState.userSkills),
                                             Len(required)))

(***************************************************************************)
(* Properties of the percentage arithmetic (SpecPercent)                   *)
(***************************************************************************)

\* C8: whenever matched + missing > 0, the percentage a view derives is the
\* integer in 0..100 nearest to 100 * matched / (matched + missing).
C8_PercentIsRoundedShare ==
    (ret.done /\ arg.total > 0) =>
        /\ ~ret.value.nan
        /\ ret.value.n \in 0..100
        /\ ret.value.n = NearestPercent(arg.count, arg.total)

(***************************************************************************)
(* Properties of the JD analyzer (SpecJDA)                                 *)
(***************************************************************************)

\* the result panel shows an analysis that extracted nothing
JdaShowsEmptyExtraction == ~jdaDom.resultsHidden /\ jdaExtractedSkills = <<>>

\* C10: after an analysis that extracts no skill, the panel shows score 0
\* in the 'low' tier, no matched and no missing skill with both counts 0,
\* the no-skills notice, and no add-to-tracker section.
C10_EmptyExtractionIsTerminalCase ==
    JdaShowsEmptyExtraction =>
        /\ jdaDom.scoreValue = <<JsNumber(0)>>
        /\ jdaDom.scoreCircle = "low"
        /\ jdaDom.barBackground = "danger"
        /\ jdaDom.haveSkills = <<>> /\ ~jdaDom.havePlaceholder
        /\ jdaDom.needSkills = <<>> /\ ~jdaDom.needPlaceholder
        /\ jdaDom.haveCount = <<0>> /\ jdaDom.needCount = <<0>>
        /\ ~jdaDom.noSkillsHidden
        /\ jdaDom.allSkillsSectionHidden
        /\ jdaDom.addTrackerHidden

\* a text without skills analyzed after a text with skills
C10_Witness ==
    /\ JdaShowsEmptyExtraction
    /\ jdaDom.text = <<"h","e","l","l","o","!">>
    /\ jdaDom.allSkills # <<>>
    /\ jdaDom.scoreValue = <<JsNumber(0)>>

(***************************************************************************)
(* Properties of the JD analyzer's score (SpecJdaScore)                    *)
(***************************************************************************)

\* the result panel shows an analysis that extracted some skill
JdaShowsScore == ~jdaDom.resultsHidden /\ jdaExtractedSkills # <<>>

\* the extracted skills the user has: those equal to some entry of
\* userSkills ignoring case, in extraction order
HaveOf(extracted, userSkills) ==
    LET has(skill) == Possessed(skill, userSkills)
    IN  SelectSeq(extracted, has)

\* the extracted skills the user lacks, in extraction order
NeedOf(extracted, userSkills) ==
    LET lacks(skill) == ~Possessed(skill, userSkills)
    IN  SelectSeq(extracted, lacks)

\* C11: after an analysis with a non-empty extraction, have and need are the
\* extracted skills the user has and lacks, in extraction order, and the
\* score is 100 * |have| / |extracted| rounded to the nearest integer.
C11_JdScoreIsRoundedShareOfHave ==
    JdaShowsScore =>
        /\ jdaDom.haveSkills = HaveOf(jdaExtractedSkills, appState.userSkills)
        /\ jdaDom.needSkills = NeedOf(jdaExtractedSkills, appState.userSkills)
        /\ jdaDom.scoreValue =
              <<JsNumber(NearestPercent(Len(jdaDom.haveSkills), Len(jdaExtractedSkills)))>>

\* the tier of a score: 'high' from 70, 'mid' from 40, 'low' below
TierOfScore(n) == IF n >= 70 THEN "high" ELSE IF n >= 40 THEN "mid" ELSE "low"

\* C12: the score circle's class is the tier of the score shown, with 70
\* 'high', 40 'mid' and 39 'low', and the bar colour, the message and the
\* title are those of the same tier.
C12_TierOfScoreWithInclusiveBounds ==
    JdaShowsScore =>
        LET score == jdaDom.scoreValue[1]
            tier == TierOfScore(score.n)
        IN  /\ ~score.nan
            /\ jdaDom.scoreCircle = tier
            /\ jdaDom.scoreMsg = tier
            /\ jdaDom.barBackground =
                  (CASE tier = "high" -> "success"
                     [] tier = "mid" -> "warning"
                     [] tier = "low" -> "danger")
            /\ jdaDom.scoreTitle =
                  (CASE tier = "high" -> "Strong Match"
                     [] tier = "mid" -> "Growing Match"
                     [] tier = "low" -> "Skills Gap Found")

\* a score of exactly 40, shown as 'mid'
C12_Witness ==
    /\ JdaShowsScore
    /\ jdaDom.scoreValue = <<JsNumber(40)>>
    /\ jdaDom.scoreCircle = "mid"

(***************************************************************************)
(* Further properties of extractSkillsFromText (SpecExtract)               *)
(***************************************************************************)

\* the vocabulary entries that lie inside vocabulary entry B
ShadowedBy(B) ==
    {i \in 1..Len(KNOWN_SKILLS) : ContainsIgnoringCase(B, KNOWN_SKILLS[i])}

\* for each vocabulary entry, the entries that lie inside it
Shadowed == [j \in 1..Len(KNOWN_SKILLS) |-> ShadowedBy(KNOWN_SKILLS[j])]

\* the vocabulary with every letter in lower case
LoweredVocabulary ==
    [j \in 1..Len(KNOWN_SKILLS) |->
        [k \in 1..Len(KNOWN_SKILLS[j]) |-> toLowerCaseChar(KNOWN_SKILLS[j][k])]]

\* word occurs in text, letter for letter
Occurs(text, word) ==
    \E p \in 0..(Len(text) - Len(word)) : \A k \in 1..Len(word) : text[p + k] = word[k]

\* C13: when vocabulary entry A lies inside entry B and the text contains B,
\* the extraction includes both A and B.
C13_ShorterMatchIsNotSuppressed ==
    (ret.done /\ arg.kind = "string") =>
        LET lowered == [p \in 1..Len(arg.chars) |-> toLowerCaseChar(arg.chars[p])]
        IN  \A j \in 1..Len(KNOWN_SKILLS) :
                Occurs(lowered, LoweredVocabulary[j]) =>
                    /\ KNOWN_SKILLS[j] \in Range(ret.value)
                    /\ \A i \in Shadowed[j] : KNOWN_SKILLS[i] \in Range(ret.value)

\* "React Native" alone yields "React" and "React Native"
C13_Witness ==
    /\ ret.done
    /\ arg = JsString(<<"R","e","a","c","t"," ","N","a","t","i","v","e">>)
    /\ <<"R","e","a","c","t">> \in Range(ret.value)
    /\ <<"R","e","a","c","t"," ","N","a","t","i","v","e">> \in Range(ret.value)

\* C14: for the empty string, null and undefined, extractSkillsFromText
\* returns the empty sequence.
C14_EmptyInputYieldsEmptySequence ==
    (ret.done /\ arg \in {JsString(<<>>), JsNull, JsUndefined}) => ret.value = <<>>

\* null was passed and the empty sequence returned
C14_Witness == ret.done /\ arg = JsNull /\ ret.value = <<>>

\* no two entries of the vocabulary are equal ignoring case
VocabularyDistinct ==
    \A i, j \in 1..Len(KNOWN_SKILLS) :
        i < j => ~EqualsIgnoringCase(KNOWN_SKILLS[i], KNOWN_SKILLS[j])

\* C15: no two entries of KNOWN_SKILLS are equal ignoring case, and no
\* extraction holds the same skill twice.
C15_VocabularyAndExtractionDistinct ==
    /\ VocabularyDistinct
    /\ ret.done =>
          \A j, k \in 1..Len(ret.value) :
              j < k => ~EqualsIgnoringCase(ret.value[j], ret.value[k])

\* "javaScript" yields four distinct skills
C15_Witness ==
    /\ ret.done
    /\ arg = JsString(<<"j","a","v","a","S","c","r","i","p","t">>)
    /\ Len(ret.value) = 4

(***************************************************************************)
(* Further properties of the readiness views (SpecReadiness)               *)
(***************************************************************************)

\* the number of companies that require skill, names compared ignoring case
CompaniesRequiring(skill) ==
    Cardinality({ i \in 1..Len(appState.companies) :
                    \E k \in 1..Len(RequiredOf(i)) :
                        EqualsIgnoringCase(RequiredOf(i)[k], skill) })

\* C16: each skill of the skill-gap view is shown with the number of
\* companies that require it ignoring case, which is at least 1 and at most
\* the number of companies.
C16_DemandCountsCompaniesRequiring ==
    SkillGapShown =>
        /\ Len(out.neededCounts) = Len(out.neededSkills)
        /\ Len(out.proficientCounts) = Len(out.proficientSkills)
        /\ \A k \in 1..Len(out.neededSkills) :
              /\ out.neededCounts[k] = CompaniesRequiring(out.neededSkills[k])
              /\ out.neededCounts[k] \in 1..Len(appState.companies)
        /\ \A k \in 1..Len(out.proficientSkills) :
              /\ out.proficientCounts[k] = CompaniesRequiring(out.proficientSkills[k])
              /\ out.proficientCounts[k] \in 1..Len(appState.companies)

\* "Python" is counted for a company that requires "python"
C16_Witness ==
    /\ SkillGapShown
    /\ \E i \in 1..Len(appState.companies) : RequiredOf(i) = << <<"p","y","t","h","o","n">> >>
    /\ \E k \in 1..Len(out.neededSkills) :
          /\ out.neededSkills[k] = <<"P","y","t","h","o","n">>
          /\ out.neededCounts[k] = 2

(***************************************************************************)
(* Properties of equal required and possessed lists (SpecSameSkills)       *)
(***************************************************************************)

\* C17: a company whose requiredSkills is the non-empty list userSkills has
\* percentage 100 in the progress view and no missing skill in its detail
\* view, and an analysis whose extraction is the list userSkills scores 100
\* with nothing to learn.
C17_SameListIsFullyReady ==
    /\ ProgressShown =>
          \A k \in 1..Len(out.progressItems) :
              (/\ RequiredOf(out.progressItems[k].company) = appState.userSkills
               /\ appState.userSkills # <<>>)
                  => /\ out.progressItems[k].percentage = JsNumber(100)
                     /\ out.progressItems[k].acquiredSkills = out.progressItems[k].totalSkills
    /\ (DetailShown /\ RequiredOf(out.company) = appState.userSkills /\ appState.userSkills # <<>>)
          => /\ out.neededSkills = <<>>
             /\ out.proficientSkills = appState.userSkills
    /\ (JdaShowsScore /\ jdaExtractedSkills = appState.userSkills)
          => /\ jdaDom.scoreValue = <<JsNumber(100)>>
             /\ jdaDom.needSkills = <<>>
             /\ jdaDom.haveSkills = appState.userSkills

\* the progress view of a company that requires Python and Go, which the
\* user has, after the same list was analyzed as a job description
C17_Witness ==
    /\ ProgressShown
    /\ appState.userSkills = << <<"P","y","t","h","o","n">>, <<"G","o">> >>
    /\ RequiredOf(out.progressItems[Len(out.progressItems)].company) = appState.userSkills
    /\ out.progressItems[Len(out.progressItems)].percentage = JsNumber(100)
    /\ JdaShowsScore
    /\ jdaExtractedSkills = appState.userSkills
    /\ jdaDom.scoreValue = <<JsNumber(100)>>

(***************************************************************************)
(* The extracted set and the company list (SpecJDA)                        *)
(***************************************************************************)

\* the last company is new and requires the given skills
AppendsCompanyRequiring(skills) ==
    /\ Len(appState'.companies) = Len(appState.companies) + 1
    /\ SubSeq(appState'.companies, 1, Len(appState.companies)) = appState.companies
    /\ appState'.companies[Len(appState'.companies)].requiredSkills = skills

\* a step of analyzeJD() on a text that is not blank; the first conjuncts,
\* which AnalyzeJD implies, rule the other steps out before the extraction
\* is computed
AnalyzesText ==
    /\ trim(jdaDom.text) # <<>>
    /\ jdaDom'.text = jdaDom.text
    /\ appState' = appState
    /\ Len(timers') >= Len(timers)
    /\ AnalyzeJD

\* C18: the extracted set changes only in analyzeJD, which stores the
\* extraction of the text, and in clearJDA, which empties it; the company
\* list changes only in addJDAToTracker with a non-empty extracted set, by
\* one appended company that requires the extracted set; analyzeJD and
\* clearJDA leave the company list as it is.
C18_ExtractionIsCommittedExplicitly ==
    [][ /\ jdaExtractedSkills' # jdaExtractedSkills => (AnalyzesText \/ ClearJDA)
        /\ AnalyzesText =>
              jdaExtractedSkills' = extractSkillsFromText(JsString(trim(jdaDom.text)))
        /\ jdaExtractedSkills' # <<>> => ~ClearJDA
        /\ appState'.companies # appState.companies =>
              /\ ~AnalyzeJD
              /\ ~ClearJDA
              /\ AddJDAToTracker
              /\ jdaExtractedSkills # <<>>
              /\ jdaExtractedSkills' = jdaExtractedSkills
              /\ AppendsCompanyRequiring(jdaExtractedSkills)
      ]_vars

\* a company committed from the analysis of " Python and Go ", after which
\* the analyzer was cleared
C18_Witness ==
    /\ Len(appState.companies) = 1
    /\ appState.companies[1].requiredSkills = << <<"P","y","t","h","o","n">>, <<"G","o">> >>
    /\ jdaExtractedSkills = <<>>
    /\ jdaDom.resultsHidden
    /\ jdaDom.text = <<>>

(***************************************************************************)
(* The derived computations and their inputs (SpecSameSkills)              *)
(***************************************************************************)

\* C19: renderDashboard, renderSkillGapAnalysis, renderProgress,
\* viewCompanyDetail and analyzeJD leave appState.companies, with its
\* elements and their order, and appState.userSkills as they are.
C19_DerivedComputationsKeepInputs ==
    [][ /\ appState'.companies = appState.companies
        /\ appState'.userSkills = appState.userSkills ]_vars

\* the progress view lists the second company first while appState.companies
\* keeps the insertion order
C19_Witness ==
    /\ ProgressShown
    /\ Len(appState.companies) = 2
    /\ out.progressItems[1].company = 2
    /\ out.progressItems[2].company = 1
    /\ appState.companies[1].id < appState.companies[2].id
    /\ RequiredOf(1) = << <<"G","o">> >>

(***************************************************************************)
(* The operations that change appState.userSkills (SpecWrites)             *)
(***************************************************************************)

UserSkillsChange == appState'.userSkills # appState.userSkills

\* C20, as stated: appState.userSkills changes only in a step of
\* handleUpdateSkills.
C20_OnlyUpdateSkillsWritesUserSkills ==
    [][ UserSkillsChange => \E raw \in UserSkillInputs : HandleUpdateSkills(raw) ]_vars

\* C20, amended: appState.userSkills changes only in a step of
\* handleUpdateSkills, of a confirmed importData of a valid backup or of a
\* confirmed clearAllData; handleUpdateSkills sets it to the parsed form
\* input whatever the previous value was, and adding or deleting a company
\* and switching the view leave it as it is.
C20_UserSkillsWrittenByUpdateImportOrClear ==
    [][ /\ UserSkillsChange =>
              \/ \E raw \in UserSkillInputs : HandleUpdateSkills(raw)
              \/ \E file \in ImportFiles :
                     /\ file.parses
                     /\ validateAppState(file.data)
                     /\ ImportData(file, TRUE)
              \/ ClearAllData(TRUE, TRUE)
        /\ \A raw \in UserSkillInputs :
              (appState.userSkills # <<>> /\ appState'.userSkills # parseSkillList(raw))
                  => ~HandleUpdateSkills(raw) ]_vars

\* the clock still reads 0, so the company with id 1 came with the backup
\* whose userSkills is Go; the skills were then updated to Python and the
\* list holds Python alone
C20_Witness ==
    /\ now = 0
    /\ Len(appState.companies) = 1
    /\ appState.companies[1].id = 1
    /\ appState.userSkills = << <<"P","y","t","h","o","n">> >>

(***************************************************************************)
(* Company ids (SpecIds)                                                   *)
(***************************************************************************)

\* C21: the records of appState.companies have pairwise distinct ids.
C21_CompanyIdsDistinct ==
    \A i, j \in 1..Len(appState.companies) :
        i # j => appState.companies[i].id # appState.companies[j].id

(***************************************************************************)
(* The job-search proxy's responses (SpecProxy)                            *)
(***************************************************************************)

\* the pieces of a response body
BodyPieces(response) == Range(response.error) \cup Range(response.message)

\* an environment value that is a credential: set, not empty and not the
\* placeholder of the .env template
IsCredential(v) ==
    ~isFalsyEnv(v) /\ v.text \notin {"your_app_id_here", "your_app_key_here"}

\* C22: no response body of /api/jobs holds the Adzuna app id or app key
\* of the environment.
C22_ResponseBodyHoldsNoCredential ==
    ret.done =>
        /\ IsCredential(arg.env.appId) =>
               arg.env.appId.text \notin BodyPieces(ret.value.response)
        /\ IsCredential(arg.env.appKey) =>
               arg.env.appKey.text \notin BodyPieces(ret.value.response)

(***************************************************************************)
(* Stored items and backup files (SpecPersist)                             *)
(***************************************************************************)

\* C23: every company of a state that validateAppState accepted on load or
\* import has requiredSkills, and no render function threw on such a state.
C23_AcceptedStatesRenderWithoutThrowing ==
    /\ \A i \in 1..Len(appState.companies) : hasRequiredSkills(appState.companies[i])
    /\ out # typeErrorView

(***************************************************************************)
(* The dashboard and the skill-gap view on the same state (SpecReadiness)  *)
(***************************************************************************)

\* the skill-gap view shows its summary: some company requires some skill
SkillGapHasSummary(analysis) == ~analysis.empty /\ analysis.allRequiredSkills # <<>>

\* C24: the dashboard's overall progress equals the skill-gap view's Skill
\* Readiness, and its skills-needed count equals the view's Skills to Learn
\* count, whenever the skill-gap view of the same state shows them.
C24_DashboardAgreesWithSkillGap ==
    /\ (DashboardShown /\ SkillGapHasSummary(skillGapAnalysis(appState))) =>
           /\ out.overallProgress = skillGapAnalysis(appState).readiness
           /\ out.skillsNeeded = Len(skillGapAnalysis(appState).neededSkills)
    /\ (SkillGapShown /\ SkillGapHasSummary(out)) =>
           /\ out.readiness = dashboardStats(appState).overallProgress
           /\ Len(out.neededSkills) = dashboardStats(appState).skillsNeeded

(***************************************************************************)
(* The records that addJDAToTracker creates (SpecJDA)                      *)
(***************************************************************************)

\* C25: every company that addJDAToTracker created requires the skills that
\* extractSkillsFromText finds in the record's own description.
C25_RequiredSkillsAreExtractionOfDescription ==
    \A i \in 1..Len(appState.companies) :
        appState.companies[i].requiredSkills
            = extractSkillsFromText(appState.companies[i].description)

(***************************************************************************)
(* Searches whose responses overtake each other (SpecJobs)                 *)
(***************************************************************************)

\* the request that jobsState describes as the last one
LastRequest ==
    [ keyword |-> jobsState.lastKeyword, location |-> jobsState.lastLocation,
      country |-> jobsState.lastCountry, page |-> jobsState.currentPage ]

\* a search was made and every response has arrived
AllResponsesDelivered == jobsState.lastKeyword # <<>> /\ fetches = <<>>

\* C26: once every response has arrived, the grid and jobsState.totalResults
\* are those of the response to the last request, when that request
\* succeeds.
C26_LastRequestWins ==
    (AllResponsesDelivered /\ responseTo(LastRequest).ok) =>
        /\ jobsState.totalResults = responseTo(LastRequest).count
        /\ jobsDom.grid = responseTo(LastRequest).results

(***************************************************************************)
(* importData and loadFromLocalStorage (SpecPersist)                       *)
(***************************************************************************)

\* this step is handleImportFile on the file, with the answers, that arg' names
ImportStep ==
    /\ "op" \in DOMAIN arg'
    /\ arg'.op = "import"
    /\ ImportFile(arg'.file, arg'.readable, arg'.confirmed)

ImportAccepted == arg'.readable /\ arg'.file.parses /\ validateAppState(arg'.file.data)

\* C27: importData changes appState or the stored item only for a readable
\* file that parses and passes validateAppState, after the user confirmed;
\* for a file that is unreadable, unparseable or invalid the promise rejects,
\* when the user declines it resolves false, and in those cases appState
\* and the stored item stay as they are.
C27_ImportReplacesOnlyValidConfirmed ==
    [][ ImportStep =>
          /\ (appState' # appState \/ storage' # storage) =>
                 (ImportAccepted /\ arg'.confirmed)
          /\ ~ImportAccepted =>
                 (ret'.value = "rejected" /\ appState' = appState /\ storage' = storage)
          /\ (ImportAccepted /\ ~arg'.confirmed) =>
                 (ret'.value = "resolved false" /\ appState' = appState /\ storage' = storage)
      ]_vars

\* the user declined the import of a valid backup over a tracker that holds
\* a company
C27_Witness ==
    /\ "op" \in DOMAIN arg
    /\ arg.op = "import"
    /\ arg.readable /\ arg.file.parses /\ validateAppState(arg.file.data)
    /\ ~arg.confirmed
    /\ arg.file.data.companies.items = <<>>
    /\ ret.value = "resolved false"
    /\ appState.companies # <<>>

\* the default state of initializeDefaultState
DefaultState ==
    [ companies |-> <<>>, userSkills |-> <<>>, currentView |-> "dashboard",
      currentCompany |-> <<>> ]

\* the stored item is there, parses and passes validateAppState
StoredItemAccepted ==
    /\ storage # <<>>
    /\ isForeign(storage[1]) => (storage[1].parses /\ validateAppState(storage[1].data))

\* the data of the stored item
StoredData ==
    IF isForeign(storage[1]) THEN appStateOf(storage[1].data) ELSE storage[1].data

WithoutIndex(seq, i) == [k \in 1..(Len(seq) - 1) |-> IF k < i THEN seq[k] ELSE seq[k + 1]]

HasCompany(id) == \E i \in 1..Len(appState.companies) : appState.companies[i].id = id

\* C29: a confirmed deleteCompany(id) of an existing company leaves the
\* previous list minus one company of that id, the others in their order;
\* when no company has the id or the user declines, the list and the stored
\* item stay as they are.
C29_DeleteRemovesExactlyOne ==
    [][ \A id \in 0..MaxClock :
          /\ (HasCompany(id) /\ DeleteCompany(id, TRUE)) =>
                 \E i \in 1..Len(appState.companies) :
                     /\ appState.companies[i].id = id
                     /\ appState'.companies = WithoutIndex(appState.companies, i)
          /\ ((~HasCompany(id) /\ DeleteCompany(id, TRUE)) \/ DeleteCompany(id, FALSE)) =>
                 (appState'.companies = appState.companies /\ storage' = storage)
      ]_vars

(***************************************************************************)
(* The two health endpoints (SpecProxy)                                    *)
(***************************************************************************)

HealthAnswered == ret.done /\ ret.value.handler \in {"server.js health", "api/health.js"}

\* both keys are set to credentials
KeysActuallySet == IsCredential(arg.env.appId) /\ IsCredential(arg.env.appKey)

\* C30: for every environment the two health endpoints report the same
\* keysConfigured, and the reported value is true only when both keys are
\* set to credentials.
C30_HealthEndpointsAgree ==
    HealthAnswered =>
        /\ expressHealth(arg.env).keysConfigured = serverlessHealth(arg.env).keysConfigured
        /\ ret.value.response.keysConfigured => KeysActuallySet

====
